---- MODULE Spec2Model ----
(***************************************************************************)
(* The task scheduler of gpt-oss-tools: the recurrence engine              *)
(* (taskScheduler._next_run_after), the task store (taskTools) and the     *)
(* polling loop (TaskScheduler._tick).                                     *)
(*                                                                         *)
(* Instants are whole seconds since 1970-01-01T00:00:00Z (aware UTC        *)
(* datetimes).  A stored ISO-8601 string is modelled by the tuple of its   *)
(* printed fields <<year, month, day, hour, minute, second>>; JSON null    *)
(* is the empty tuple.                                                     *)
(***************************************************************************)
EXTENDS Integers, Sequences, FiniteSets, TLC

VARIABLES
    store,      \* the content of scheduled_tasks.json: a sequence of task records
    now,        \* the wall clock, an instant
    pc,         \* the loop: "sleeping" (between ticks) or "awaiting" (in inject_callback)
    tasks,      \* _tick's local list `tasks` (the loaded snapshot), <<>> outside a tick
    idx,        \* position of the task whose callback is awaited, 0 outside a tick
    changed,    \* _tick's local flag `changed`
    tick_now,   \* _tick's local `now`
    next_id,    \* number of ids handed out so far (uuid4 never repeats)
    fires,      \* history: <<id, occurrence>> pairs whose callback has returned
    refires,    \* history: pairs whose callback has returned more than once
    hist,       \* history of the current / last tick (invoked, raised, due, late, outcome)
    high,       \* history: per task id, the latest last_run_at ever stored (None: never)
    q,          \* a call of the recurrence engine on its own: inputs and result
    call,       \* the last tool call or trigger evaluation made on its own, with its outcome
    fs,         \* scheduled_tasks.json and scheduled_tasks.json.tmp as written text, where
                \* a save is followed step by step
    sched,      \* the TaskScheduler object: its loop task (_task), its _stopped event
    status      \* statusTools: the sessions whose status is active, and the session id
                \* in effect in the loop task

vars == <<store, now, pc, tasks, idx, changed, tick_now, next_id, fires, refires, hist, high, q, call, fs, sched, status>>

schedVars == <<store, now, pc, tasks, idx, changed, tick_now, next_id, fires, refires, hist, high>>

-----------------------------------------------------------------------------
(* Python values that are not instants *)

\* Python's None (an absent value, a function returning no occurrence)
None == -1000000
\* an exception propagating out of the function
Raise == -1000001
\* a date/time literal that no accepted format parses
Bad == -1000002
\* JSON null in a stored ISO string field
NoIso == <<>>

-----------------------------------------------------------------------------
(* Bounds of the model *)

\* horizon of the wall clock, in hours after T0
MaxHours == 1
\* number of tasks ever created
MaxTasks == 2
\* the number of tasks in the store the ticks of SpecStore start from
MaxStore == 3
\* the ids uuid4 hands out, in order
TaskIds == 1..MaxTasks
\* afters tried around each occurrence, in hours, when the engine is called alone
MaxAfterHours == 3
\* how many returned occurrences are fed back as the next after
MaxFeed == 3
\* how many check intervals the clock of the daily scenario moves on
MaxPolls == 6

-----------------------------------------------------------------------------
(* datetime arithmetic *)

\* the value of a local variable: the one element of a singleton set.  The
\* operators below write The({ e(x) : x \in {v} }) for "x = v; e(x)".
The(S) == CHOOSE x \in S : TRUE

HourSecs == 3600
DaySecs == 86400
WeekSecs == 604800

\* the leap-year test written out in _add_months; datetime uses the same rule
IsLeap(y) == y % 4 = 0 /\ (y % 100 # 0 \/ y % 400 = 0)

DaysInMonth(y, m) ==
    IF m = 2 THEN (IF IsLeap(y) THEN 29 ELSE 28)
    ELSE IF m \in {4, 6, 9, 11} THEN 30 ELSE 31

Min(a, b) == IF a < b THEN a ELSE b

\* days from 1970-01-01 to the proleptic Gregorian date y-m-d, the year taken
\* to start in March: yy = shifted year, mp = months since March
DaysFromShifted(yy, mp, d) ==
    (yy \div 400) * 146097
    + (yy % 400) * 365 + (yy % 400) \div 4 - (yy % 400) \div 100
    + (153 * mp + 2) \div 5 + d - 1
    - 719468

DaysFromCivil(y, m, d) ==
    DaysFromShifted(IF m <= 2 THEN y - 1 ELSE y, IF m > 2 THEN m - 3 ELSE m + 9, d)

FromCivil(y, m, d, sod) == DaysFromCivil(y, m, d) * DaySecs + sod

\* the fields of an instant, [year, month, day, sod] (sod = second of the day),
\* computed era by era: doe = day of the 400-year era, yoe = year of the era,
\* doy = day of the year from 1 March, mp = months since March
CivilOfMonth(y0, mp, doy, sod) ==
    [year  |-> IF mp < 10 THEN y0 ELSE y0 + 1,
     month |-> IF mp < 10 THEN mp + 3 ELSE mp - 9,
     day   |-> doy - (153 * mp + 2) \div 5 + 1,
     sod   |-> sod]

CivilOfDoy(y0, doy, sod) ==
    The({ CivilOfMonth(y0, mp, doy, sod) : mp \in {(5 * doy + 2) \div 153} })

CivilOfYoe(era, doe, yoe, sod) ==
    The({ CivilOfDoy(yoe + era * 400, doy, sod) :
             doy \in {doe - (365 * yoe + yoe \div 4 - yoe \div 100)} })

CivilOfDoe(era, doe, sod) ==
    The({ CivilOfYoe(era, doe, yoe, sod) :
             yoe \in {(doe - doe \div 1460 + doe \div 36524 - doe \div 146096) \div 365} })

CivilOfDays(z, sod) == CivilOfDoe(z \div 146097, z % 146097, sod)

Civil(t) == The({ CivilOfDays(x \div DaySecs + 719468, x % DaySecs) : x \in {t} })

\* the printed fields of a broken-down time
IsoFields(c) ==
    <<c.year, c.month, c.day, c.sod \div HourSecs, (c.sod % HourSecs) \div 60, c.sod % 60>>

\* a faulty isoformat that prints the hour on a 12-hour clock; C9_LastRunMonotone
\* fails with it
isoformat_12h(t) ==
    The({ <<c.year, c.month, c.day, ((c.sod \div HourSecs + 11) % 12) + 1,
            (c.sod % HourSecs) \div 60, c.sod % 60>> : c \in {Civil(t)} })

\* datetime.isoformat() of an aware UTC datetime with no microseconds
isoformat(t) == The({ IsoFields(c) : c \in {Civil(t)} })

\* datetime.fromisoformat() of a string isoformat() wrote
fromisoformat(s) == FromCivil(s[1], s[2], s[3], s[4] * HourSecs + s[5] * 60 + s[6])

\* the first instant of the model: 2024-02-29T12:00:00Z
T0 == FromCivil(2024, 2, 29, 12 * HourSecs)

\* the range of datetime (years 1..9999 in Python), scaled to the model's horizon:
\* arithmetic leaving it raises OverflowError
MinInstant == T0 - 32 * DaySecs
MaxInstant == T0 + 4000 * DaySecs

InRange(t) == The({ IF x >= MinInstant /\ x <= MaxInstant THEN x ELSE Raise : x \in {t} })

\* a faulty _add_months that keeps dt.day, so that replace raises ValueError when
\* the target month is shorter; C15_MonthlyClamp fails with it
ReplaceUnclamped(c, y, m) ==
    IF c.day > DaysInMonth(y, m) THEN Raise ELSE InRange(FromCivil(y, m, c.day, c.sod))

\* dt.replace(year=y, month=m, day=d) in _add_months (lines 130-132)
ReplaceClamped(c, y, m) == InRange(FromCivil(y, m, Min(c.day, DaysInMonth(y, m)), c.sod))

\* _add_months on the fields of dt (lines 127-128)
AddMonthsFields(c, months) ==
    ReplaceClamped(c, c.year + (c.month - 1 + months) \div 12,
                      ((c.month - 1 + months) % 12) + 1)

\* _add_months(dt, months)
_add_months(dt, months) == The({ AddMonthsFields(c, months) : c \in {Civil(dt)} })

\* dt.replace(year=y): ValueError when the day does not exist in that year
ReplaceYearFields(c, y) ==
    IF c.day > DaysInMonth(y, c.month) THEN Raise
    ELSE InRange(FromCivil(y, c.month, c.day, c.sod))

AddYearsFields(c, interval) == ReplaceYearFields(c, c.year + interval)

\* candidate.replace(year=candidate.year + interval) (line 160)
replace_year(dt, interval) == The({ AddYearsFields(c, interval) : c \in {Civil(dt)} })

-----------------------------------------------------------------------------
(* Triggers.  A VEVENT text is modelled by what its significant lines hold:    *)
(*   dtstart : None (no DTSTART line with a colon), Bad (a value no format     *)
(*             parses) or the instant the value denotes;                       *)
(*   rrule   : NoRule (no RRULE line) or the dict _parse_rrule returns.        *)

\* parse_vevent's "rrule": None when the text has no RRULE line.  _parse_rrule
\* always stores an integer INTERVAL, so no parsed dict equals this record.
NoRule == [FREQ |-> "", INTERVAL |-> None, COUNT |-> None, UNTIL |-> None]

\* str.upper() on the FREQ values used here
upper(s) ==
    CASE s = "hourly" -> "HOURLY"
      [] s = "daily" -> "DAILY"
      [] OTHER -> s

\* _parse_dt_value(value, tzid) on a literal: the instant, or ValueError
parse_dt_value(v) == IF v = Bad THEN Raise ELSE v

\* a faulty parser that takes the first instant for a DTSTART value it cannot
\* parse; C33_ParseFailureSkipped fails with it
parse_vevent_default(vevent) ==
    IF vevent.dtstart = None
    THEN [ok |-> FALSE, start_utc |-> None, rrule |-> NoRule]
    ELSE [ok |-> TRUE,
          start_utc |-> IF vevent.dtstart = Bad THEN FromCivil(2024, 2, 29, 12 * HourSecs)
                        ELSE vevent.dtstart,
          rrule |-> vevent.rrule]

\* parse_vevent(vevent): [ok, start_utc, rrule]; ok = FALSE when it raises
parse_vevent(vevent) ==
    IF vevent.dtstart = None \/ parse_dt_value(vevent.dtstart) = Raise
    THEN [ok |-> FALSE, start_utc |-> None, rrule |-> NoRule]
    ELSE [ok |-> TRUE, start_utc |-> parse_dt_value(vevent.dtstart), rrule |-> vevent.rrule]

\* one pass of the while-loop body's advancement (lines 151-162): the new
\* candidate, None for an unrecognised FREQ, Raise for a datetime error
Advance(candidate, freq, interval) ==
    CASE freq = "HOURLY"  -> InRange(candidate + interval * HourSecs)
      [] freq = "DAILY"   -> InRange(candidate + interval * DaySecs)
      [] freq = "WEEKLY"  -> InRange(candidate + interval * WeekSecs)
      [] freq = "MONTHLY" -> _add_months(candidate, interval)
      [] freq = "YEARLY"  -> replace_year(candidate, interval)
      [] OTHER            -> None

\* the while-loop of _next_run_after (lines 149-169): NextRunLoop tests the
\* loop condition and advances, LoopChecks is the rest of the body with the
\* advanced candidate c and the incremented idx
RECURSIVE NextRunLoop(_, _, _, _, _, _, _)
RECURSIVE LoopChecks(_, _, _, _, _, _, _)
\* a faulty loop test that stops at a candidate equal to after; C11_SmallestLater
\* fails with it
NextRunLoop_lt(candidate, i, freq, interval, count_limit, until_utc, after) ==
    IF ~(candidate < after) THEN candidate
    ELSE The({ LoopChecks(c, i + 1, freq, interval, count_limit, until_utc, after) :
                  c \in {Advance(candidate, freq, interval)} })

NextRunLoop(candidate, i, freq, interval, count_limit, until_utc, after) ==
    IF ~(candidate <= after) THEN candidate
    ELSE The({ LoopChecks(c, i + 1, freq, interval, count_limit, until_utc, after) :
                  c \in {Advance(candidate, freq, interval)} })

LoopChecks(c, i, freq, interval, count_limit, until_utc, after) ==
    IF c = None \/ c = Raise THEN c
    ELSE IF count_limit # None /\ i >= count_limit THEN None
    ELSE IF until_utc # None /\ c > until_utc THEN None
    ELSE NextRunLoop(c, i, freq, interval, count_limit, until_utc, after)

\* _next_run_after from line 143 on, with the rule's fields read
NextRunRule(start_utc, freq, interval, count_limit, until_utc, after) ==
    IF until_utc = Raise THEN Raise
    ELSE NextRunLoop(start_utc, 0, freq, interval, count_limit, until_utc, after)

\* `freq = (rrule.get("FREQ") or "DAILY").upper()` (line 143)
freq_of(rrule) == upper(IF rrule.FREQ = "" THEN "DAILY" ELSE rrule.FREQ)

\* `interval = int(rrule.get("INTERVAL") or 1)` (line 144): 0 is falsy and
\* gives 1, every other integer is kept
interval_of(rrule) == IF rrule.INTERVAL = 0 THEN 1 ELSE rrule.INTERVAL

\* _next_run_after(start_utc, rrule, after): an instant, None or Raise
\* a faulty one-shot branch that also returns a start equal to after;
\* C10_OneShot fails with it
NextRunFrom_ge(start_utc, rrule, after) ==
    IF rrule = NoRule
    THEN (IF start_utc >= after THEN start_utc ELSE None)
    ELSE NextRunRule(start_utc,
                     freq_of(rrule),
                     interval_of(rrule),
                     rrule.COUNT,
                     IF rrule.UNTIL = None THEN None ELSE parse_dt_value(rrule.UNTIL),
                     after)

\* the body of _next_run_after (lines 139-169) on its evaluated arguments
NextRunFrom(start_utc, rrule, after) ==
    IF rrule = NoRule
    THEN (IF start_utc > after THEN start_utc ELSE None)
    ELSE NextRunRule(start_utc,
                     freq_of(rrule),
                     interval_of(rrule),
                     rrule.COUNT,
                     IF rrule.UNTIL = None THEN None ELSE parse_dt_value(rrule.UNTIL),
                     after)

_next_run_after(start_utc, rrule, after) ==
    The({ NextRunFrom(s, rrule, a) : s \in {start_utc}, a \in {after} })

-----------------------------------------------------------------------------
(* The task store (taskTools.py) *)

\* load_tasks(): the stored list
load_tasks == store

\* save_tasks(tasks): the file's new content
save_tasks(ts) == ts

\* _parse_vevent_minimal(vevent): a DTSTART line with a colon is present
parse_vevent_minimal(vevent) == vevent.dtstart # None

\* the dict schedule_task appends
NewTask(task_id, sid, prompt, vevent, created) ==
    [id |-> task_id, session_id |-> sid, prompt |-> prompt, vevent |-> vevent,
     created_at |-> isoformat(created), last_run_at |-> NoIso,
     completed |-> FALSE, deleted |-> FALSE]

\* a faulty filter that also drops every record flagged deleted;
\* C23_DeleteRemovesOne fails with it
RECURSIVE new_tasks_purge(_, _)
new_tasks_purge(ts, task_id) ==
    IF ts = <<>> THEN <<>>
    ELSE IF Head(ts).id = task_id \/ Head(ts).deleted THEN new_tasks_purge(Tail(ts), task_id)
    ELSE <<Head(ts)>> \o new_tasks_purge(Tail(ts), task_id)

\* the list delete_task keeps (lines 157-164)
RECURSIVE new_tasks(_, _)
new_tasks(ts, task_id) ==
    IF ts = <<>> THEN <<>>
    ELSE IF Head(ts).id = task_id /\ ~Head(ts).deleted THEN new_tasks(Tail(ts), task_id)
    ELSE <<Head(ts)>> \o new_tasks(Tail(ts), task_id)

\* a faulty match that ignores the deleted flag; C22_NotFoundLeavesStore fails
\* with it
found_any(ts, task_id) == \E i \in 1..Len(ts) : ts[i].id = task_id

\* delete_task's `found`
found(ts, task_id) == \E i \in 1..Len(ts) : ts[i].id = task_id /\ ~ts[i].deleted

-----------------------------------------------------------------------------
(* TaskScheduler._tick *)

\* last_run (lines 218-221): the stored string parsed back, None when null
last_run_of(t) == IF t.last_run_at = NoIso THEN None ELSE fromisoformat(t.last_run_at)

\* a faulty baseline that ignores last_run_at; C4_Idempotent fails with it
after_of_start(t, start_utc) == start_utc - 1

\* the baseline `after` (line 226)
after_of(t, start_utc) ==
    IF t.last_run_at # NoIso THEN last_run_of(t) ELSE start_utc - 1

\* next_run for a task with the parsed trigger (line 227)
next_run_parsed(t, parsed) ==
    _next_run_after(parsed.start_utc, parsed.rrule, after_of(t, parsed.start_utc))

next_run_of(t) == next_run_parsed(t, parse_vevent(t.vevent))

\* the for-loop of _tick from position i on (lines 206-262), run until it
\* suspends in inject_callback ("await"), finishes ("end") or an exception
\* leaves _tick ("raise").  Sweep is the loop, SweepTask the body for a
\* non-deleted task, SweepRun the body from line 228 on.
RECURSIVE Sweep(_, _, _, _)
RECURSIVE SweepTask(_, _, _, _, _)
RECURSIVE SweepRun(_, _, _, _, _, _)
\* a faulty loop that evaluates the records flagged deleted like the others;
\* C31_DeletedSkipped fails with it
Sweep_noskip(ts, i, ch, nw) ==
    IF i > Len(ts) THEN [kind |-> "end", tasks |-> ts, idx |-> 0, changed |-> ch]
    ELSE The({ SweepTask(ts, i, ch, nw, parsed) : parsed \in {parse_vevent(ts[i].vevent)} })

Sweep(ts, i, ch, nw) ==
    IF i > Len(ts) THEN [kind |-> "end", tasks |-> ts, idx |-> 0, changed |-> ch]
    ELSE IF ts[i].deleted THEN Sweep(ts, i + 1, ch, nw)
    ELSE The({ SweepTask(ts, i, ch, nw, parsed) : parsed \in {parse_vevent(ts[i].vevent)} })

SweepTask(ts, i, ch, nw, parsed) ==
    IF ~parsed.ok THEN Sweep(ts, i + 1, ch, nw)
    ELSE IF parsed.rrule = NoRule /\ ts[i].completed THEN Sweep(ts, i + 1, ch, nw)
    ELSE The({ SweepRun(ts, i, ch, nw, parsed.rrule, next_run) :
                  next_run \in {next_run_parsed(ts[i], parsed)} })

SweepRun(ts, i, ch, nw, rrule, next_run) ==
    IF next_run = Raise
    THEN [kind |-> "raise", tasks |-> ts, idx |-> i, changed |-> ch]
    ELSE IF next_run = None
    THEN (IF rrule = NoRule /\ ~ts[i].completed /\ ts[i].last_run_at # NoIso
          THEN The({ Sweep(closed, i + 1, TRUE, nw) :
                        closed \in {[ts EXCEPT ![i].completed = TRUE]} })
          ELSE Sweep(ts, i + 1, ch, nw))
    ELSE IF nw >= next_run
    THEN [kind |-> "await", tasks |-> ts, idx |-> i, changed |-> ch]
    ELSE Sweep(ts, i + 1, ch, nw)

\* faulty assignments that mark every fired task completed, recurring or not;
\* C8_CompletedFinal fails with them
Fired_always_completed(t) ==
    [t EXCEPT !.last_run_at = isoformat(next_run_of(t)), !.completed = TRUE]

IsInstant(v) == v # None /\ v # Raise

\* the occurrence that follows the one a task is due for, if there is one
FollowingRun(t, parsed, next_run) ==
    The({ IF IsInstant(n) THEN n ELSE next_run :
             n \in {_next_run_after(parsed.start_utc, parsed.rrule, next_run)} })

\* a faulty record of the run that stores the occurrence after the one fired;
\* C37_CatchUpInOrder fails with it
Fired_following(t) ==
    [t EXCEPT !.last_run_at = isoformat(FollowingRun(t, parse_vevent(t.vevent), next_run_of(t))),
              !.completed = IF parse_vevent(t.vevent).rrule = NoRule THEN TRUE ELSE @]

\* the assignments after a successful injection (lines 251-254)
Fired(t) ==
    [t EXCEPT !.last_run_at = isoformat(next_run_of(t)),
              !.completed = IF parse_vevent(t.vevent).rrule = NoRule THEN TRUE ELSE @]

\* the tasks of a loaded list that are due or overdue at nw: not deleted, the
\* trigger parses, and next_occurrence(trigger, after) is an instant <= nw
IsDueAt(next_run, nw) == IsInstant(next_run) /\ next_run <= nw

DueIds(ts, nw) ==
    { ts[i].id : i \in { j \in 1..Len(ts) :
        /\ ~ts[j].deleted
        /\ parse_vevent(ts[j].vevent).ok
        /\ IsDueAt(next_run_of(ts[j]), nw) } }

\* history: the latest last_run_at stored so far for each id, after ts is saved
StoredRuns(ts, id) ==
    { last_run_of(ts[i]) : i \in { j \in 1..Len(ts) : ts[j].id = id /\ ts[j].last_run_at # NoIso } }

Highest(h, ts) ==
    [id \in DOMAIN h |->
        The({ IF \E v \in runs : v > h[id]
              THEN CHOOSE v \in runs : \A w \in runs : w <= v
              ELSE h[id] : runs \in {StoredRuns(ts, id)} })]

\* a faulty loop boundary that lets the exception of a tick end the loop task;
\* C25_LoopSurvivesErrors fails with it
AfterTick_uncaught(kind) == IF kind = "raise" THEN "done" ELSE "alive"

\* _run_loop after `await self._tick(...)` (lines 196-200): the tick returned
\* ("end") or raised an Exception ("raise"); either way the loop task sleeps
AfterTick(kind) == "alive"

\* the ids of the records of a list
IdsOf(ts) == { ts[i].id : i \in 1..Len(ts) }

\* the stored records whose id the list ts does not hold
NotIn(ts) == LET Other(t) == t.id \notin IdsOf(ts) IN SelectSeq(store, Other)

\* a faulty final save that appends the records stored meanwhile to the
\* tick's list; C29_LastWriterWins fails with it
FinalList_merged(ts) == ts \o NotIn(ts)

\* a faulty final save that leaves out the records flagged deleted;
\* C39_TickFrame fails with it
FinalList_purged(ts) == LET Kept(t) == ~t.deleted IN SelectSeq(ts, Kept)

\* the list _tick saves at line 265: the one it loaded at line 203, with the
\* changes the tick made to its records
FinalList(ts) == ts

\* a faulty end of the tick that saves the list whether or not it was changed;
\* C34_OneSaveIfChanged fails with it
SaveDue_always(kind, ch) == kind = "end"

\* `if changed: save_tasks(tasks)` after the for-loop (lines 264-265): the
\* sweep has run to its end and the flag is set
SaveDue(kind, ch) == kind = "end" /\ ch

\* where the loop stands after a sweep r: suspended in the callback, or back in
\* asyncio.sleep with the list saved (lines 264-265) or the exception swallowed by
\* _run_loop (lines 196-199)
Resume(r, nw, h) ==
    IF r.kind = "await"
    THEN /\ pc' = "awaiting"
         /\ tasks' = r.tasks
         /\ idx' = r.idx
         /\ changed' = r.changed
         /\ tick_now' = nw
         /\ store' = store
         /\ high' = high
         /\ hist' = [h EXCEPT !.invoked = @ \cup {r.tasks[r.idx].id}]
         /\ sched' = sched
    ELSE /\ pc' = "sleeping"
         /\ tasks' = <<>>
         /\ idx' = 0
         /\ changed' = FALSE
         /\ tick_now' = None
         /\ store' = IF SaveDue(r.kind, r.changed) THEN save_tasks(FinalList(r.tasks)) ELSE store
         /\ high' = IF SaveDue(r.kind, r.changed) THEN Highest(high, r.tasks) ELSE high
         /\ hist' = [h EXCEPT !.outcome = IF r.kind = "end" THEN "done" ELSE "abort",
                              !.saved = SaveDue(r.kind, r.changed),
                              !.lost = IF SaveDue(r.kind, r.changed)
                                       THEN IdsOf(store) \ IdsOf(r.tasks) ELSE {},
                              !.revived = IF SaveDue(r.kind, r.changed)
                                          THEN IdsOf(r.tasks) \ IdsOf(store) ELSE {}]
         /\ sched' = [sched EXCEPT !.task = AfterTick(r.kind)]

-----------------------------------------------------------------------------
(* Inputs *)

Rule(freq, interval, count, until) ==
    [FREQ |-> freq, INTERVAL |-> interval, COUNT |-> count, UNTIL |-> until]

\* the trigger texts given to schedule_task
VEvents ==
    { [dtstart |-> T0, rrule |-> NoRule],
      [dtstart |-> T0, rrule |-> Rule("hourly", 0, 2, T0 + 2 * HourSecs)],
      [dtstart |-> T0, rrule |-> Rule("", 1, None, Bad)],
      [dtstart |-> None, rrule |-> NoRule] }

Sessions == {"s1"}
Prompts == {"p1"}

\* what get_effective_session_id() returns: a bound session id, or "" for None
EffectiveIds == {""} \cup Sessions

\* str.strip() on the session ids used here
strip(s) == IF s = " " THEN "" ELSE s

\* the instants at which the wall clock is read
ClockValues ==
    {T0 - 1} \cup { T0 + h * HourSecs : h \in 0..MaxHours }

\* history of the current tick: the ids found due at its start, the ids the
\* callback was invoked and raised for, the occurrences fired after a raise;
\* at its end, whether it saved its list, the stored ids that save removed
\* and the ids it put back; after a cancellation, the fired ids left unsaved
NoHist == [invoked |-> {}, raised |-> {}, due |-> {}, late |-> {}, unsaved |-> {},
           saved |-> FALSE, lost |-> {}, revived |-> {}, outcome |-> "none"]

QIdle == [start_utc |-> None, rrule |-> NoRule, first |-> None, after |-> None,
          result |-> None, n |-> 0, phase |-> "idle"]

\* no call made yet
NoCall == [op |-> "none"]

\* the scheduler after start(): the loop task runs, _stopped is clear.  orphaned:
\* a loop task that is not done is no longer held in _task; restarted: start()
\* has created a loop task after a stop(); ignored: a start() has returned at
\* line 181 without creating one
Started == [task |-> "alive", stopped |-> FALSE, orphaned |-> FALSE, restarted |-> FALSE,
            ignored |-> FALSE]

\* a file that does not exist
Missing == [text |-> <<>>, upto |-> None]

\* neither scheduled_tasks.json nor its temporary file exists
NoFiles == [main |-> Missing, tmp |-> Missing]

-----------------------------------------------------------------------------
(* The status sink (statusTools.py) *)

\* no session has an active status, no session id is in effect
NoStatus == [active |-> {}, effective |-> ""]

\* set_current_session_id(sid); set_fallback_session_id(sid) under `if sid`
\* (taskScheduler.py lines 238-243)
SetSession(st, sid) == IF sid # "" THEN [st EXCEPT !.effective = sid] ELSE st

\* _mark_status(label, activity_type): "active": True for the effective session
\* (statusTools.py lines 31-47)
_mark_status(st, effective) ==
    IF effective = "" THEN st ELSE [st EXCEPT !.active = @ \cup {effective}]

\* mark_running_scheduled_task()
mark_running_scheduled_task(st) == _mark_status(st, st.effective)

\* clear_tool_status(): "active": False for the effective session
\* (statusTools.py lines 50-65)
clear_tool_status(st, effective) ==
    IF effective = "" THEN st ELSE [st EXCEPT !.active = @ \ {effective}]

\* clear_tool_status_for_session_now(sid)
clear_tool_status_for_session_now(st, sid) == [st EXCEPT !.active = @ \ {sid}]

\* _tick from `sid = ...` to the call of inject_callback (lines 237-248)
BeforeInjection(st, t) == mark_running_scheduled_task(SetSession(st, strip(t.session_id)))

\* the status calls after inject_callback has returned (lines 249, 256-260)
ClearedFor(st, sid) == IF sid # "" THEN clear_tool_status_for_session_now(st, sid) ELSE st

AfterInjection(st, t) == ClearedFor(clear_tool_status(st, st.effective), strip(t.session_id))

\* the status once the sweep r has suspended or ended
AfterSweep(st, r) == IF r.kind = "await" THEN BeforeInjection(st, r.tasks[r.idx]) ELSE st

\* a tool marks its status and clears it in its finally block (taskTools.py
\* lines 87/115-116, 128/145-146, 154/170-171) for the session id in effect
\* where the tool runs
ToolStatus(st, effective) == clear_tool_status(_mark_status(st, effective), effective)

-----------------------------------------------------------------------------
(* The scheduler with its store *)

Init ==
    /\ store = <<>>
    /\ now = T0 - 1
    /\ pc = "sleeping"
    /\ tasks = <<>>
    /\ idx = 0
    /\ changed = FALSE
    /\ tick_now = None
    /\ next_id = 0
    /\ fires = {}
    /\ refires = {}
    /\ hist = NoHist
    /\ high = [id \in TaskIds |-> None]
    /\ q = QIdle
    /\ call = NoCall
    /\ fs = NoFiles
    /\ sched = Started
    /\ status = NoStatus

\* the wall clock moves on
AdvanceClock ==
    /\ \E t \in ClockValues : t > now /\ now' = t
    /\ UNCHANGED <<store, pc, tasks, idx, changed, tick_now, next_id, fires, refires, hist, high, q, call, fs, sched, status>>

\* schedule_task(prompt, vevent, session_id) returning success (taskTools.py 76-116)
schedule_task ==
    /\ next_id < MaxTasks
    /\ \E prompt \in Prompts, vevent \in VEvents, session_id \in Sessions :
          /\ parse_vevent_minimal(vevent)
          /\ store' = save_tasks(Append(load_tasks,
                          NewTask(next_id + 1, session_id, prompt, vevent, now)))
    /\ next_id' = next_id + 1
    /\ \E effective \in EffectiveIds : status' = ToolStatus(status, effective)
    /\ UNCHANGED <<now, pc, tasks, idx, changed, tick_now, fires, refires, hist, high, q, call, fs, sched>>

\* delete_task(task_id) returning success (taskTools.py 150-171)
delete_task ==
    /\ \E task_id \in TaskIds :
          /\ found(load_tasks, task_id)
          /\ store' = save_tasks(new_tasks(load_tasks, task_id))
    /\ \E effective \in EffectiveIds : status' = ToolStatus(status, effective)
    /\ UNCHANGED <<now, pc, tasks, idx, changed, tick_now, next_id, fires, refires, hist, high, q, call, fs, sched>>

\* _run_loop wakes and _tick runs up to its first await (or to its end)
TickStart ==
    /\ pc = "sleeping"
    /\ \E r \in {Sweep(load_tasks, 1, FALSE, now)} :
          /\ Resume(r, now, [NoHist EXCEPT !.due = DueIds(load_tasks, now),
                                           !.outcome = "running"])
          /\ status' = AfterSweep(status, r)
    /\ UNCHANGED <<now, next_id, fires, refires, q, call, fs>>

\* inject_callback returns; _tick records the run and goes on (lines 249-260)
CallbackReturn ==
    /\ pc = "awaiting"
    /\ \E occ \in {<<tasks[idx].id, next_run_of(tasks[idx])>>} :
          /\ fires' = fires \cup {occ}
          /\ refires' = IF occ \in fires THEN refires \cup {occ} ELSE refires
          /\ \E ts \in {[tasks EXCEPT ![idx] = Fired(tasks[idx])]} :
             \E r \in {Sweep(ts, idx + 1, TRUE, tick_now)} :
                /\ Resume(r, tick_now,
                          [hist EXCEPT !.late = IF hist.raised # {} THEN @ \cup {occ} ELSE @])
                /\ status' = AfterSweep(AfterInjection(status, tasks[idx]), r)
    /\ UNCHANGED <<now, next_id, q, call, fs>>

\* inject_callback raises; the exception is swallowed (lines 261-262)
CallbackRaise ==
    /\ pc = "awaiting"
    /\ \E r \in {Sweep(tasks, idx + 1, changed, tick_now)} :
          /\ Resume(r, tick_now, [hist EXCEPT !.raised = @ \cup {tasks[idx].id}])
          /\ status' = AfterSweep(status, r)
    /\ UNCHANGED <<now, next_id, fires, refires, q, call, fs>>

Next ==
    \/ AdvanceClock
    \/ schedule_task
    \/ delete_task
    \/ TickStart
    \/ CallbackReturn
    \/ CallbackRaise

Spec == Init /\ [][Next]_vars

\* the stores left by n successful schedule_task calls made before the first tick
RECURSIVE Stores(_)
Stores(n) ==
    IF n = 0 THEN {<<>>}
    ELSE { Append(ts, NewTask(n, session_id, prompt, vevent, T0 - 1)) :
              ts \in Stores(n - 1), session_id \in Sessions, prompt \in Prompts,
              vevent \in { v \in VEvents : parse_vevent_minimal(v) } }

\* the scheduler started on a store of MaxStore tasks, none created or deleted
\* while it runs
InitStore ==
    /\ store \in Stores(MaxStore)
    /\ now = T0 - 1
    /\ pc = "sleeping"
    /\ tasks = <<>>
    /\ idx = 0
    /\ changed = FALSE
    /\ tick_now = None
    /\ next_id = MaxStore
    /\ fires = {}
    /\ refires = {}
    /\ hist = NoHist
    /\ high = [id \in 1..MaxStore |-> None]
    /\ q = QIdle
    /\ call = NoCall
    /\ fs = NoFiles
    /\ sched = Started
    /\ status = NoStatus

NextStore ==
    \/ AdvanceClock
    \/ TickStart
    \/ CallbackReturn
    \/ CallbackRaise

SpecStore == InitStore /\ [][NextStore]_vars

\* the loop never stops polling, a started callback ends, and the callback of
\* each task succeeds again and again when it is tried again and again
ReturnFor(id) == CallbackReturn /\ tasks[idx].id = id

FairSpec ==
    /\ Spec
    /\ WF_vars(TickStart)
    /\ WF_vars(CallbackReturn \/ CallbackRaise)
    /\ \A id \in TaskIds : SF_vars(ReturnFor(id))

-----------------------------------------------------------------------------
(* The recurrence engine called on its own *)

\* 2024-01-31T00:00:00Z, the end of a 31-day month
Jan31 == FromCivil(2024, 1, 31, 0)

QStarts == {T0, T0 + HourSecs, Jan31}

\* the dicts _parse_rrule returns for the RRULE lines tried
QRules ==
    { NoRule,
      Rule("HOURLY", 1, None, None),
      Rule("HOURLY", 2, None, None),
      Rule("HOURLY", 2, 2, None),
      Rule("HOURLY", 1, 0, None),
      Rule("HOURLY", 0, None, None),
      Rule("DAILY", 1, None, None),
      Rule("DAILY", 1, None, T0 + DaySecs),
      Rule("DAILY", 1, None, T0),
      Rule("WEEKLY", 1, None, None),
      Rule("WEEKLY", -1, None, None),
      Rule("WEEKLY", -1, 3, None),
      Rule("MONTHLY", 1, None, None),
      Rule("MONTHLY", 12, None, None),
      Rule("YEARLY", 1, None, None),
      Rule("MINUTELY", 1, None, None) }

\* the afters tried, as distances from the start: one second before, at and
\* one second after each whole hour from an hour before the start on
QOffsets == { h * HourSecs + e : h \in -1..MaxAfterHours, e \in {-1, 0, 1} }

InitNext ==
    /\ store = <<>>
    /\ now = T0 - 1
    /\ pc = "sleeping"
    /\ tasks = <<>>
    /\ idx = 0
    /\ changed = FALSE
    /\ tick_now = None
    /\ next_id = 0
    /\ fires = {}
    /\ refires = {}
    /\ hist = NoHist
    /\ high = [id \in TaskIds |-> None]
    /\ \E s \in QStarts, r \in QRules :
          \E a \in { s + d : d \in QOffsets } :
             q = [start_utc |-> s, rrule |-> r, first |-> a, after |-> a, result |-> None,
                  n |-> 0, phase |-> "call"]
    /\ call = NoCall
    /\ fs = NoFiles
    /\ sched = Started
    /\ status = NoStatus

\* one call _next_run_after(start_utc, rrule, after)
CallNextRun ==
    /\ q.phase = "call"
    /\ q' = [q EXCEPT !.result = _next_run_after(q.start_utc, q.rrule, q.after),
                      !.phase = "ret"]
    /\ UNCHANGED <<schedVars, call, fs, sched, status>>

\* the returned occurrence becomes the next baseline, as _tick does with
\* last_run_at; n counts the occurrences fed back, first is the after of the
\* first call
FeedBack ==
    /\ q.phase = "ret"
    /\ IsInstant(q.result)
    /\ q.n < MaxFeed
    /\ q' = [q EXCEPT !.after = q.result, !.result = None, !.n = @ + 1, !.phase = "call"]
    /\ UNCHANGED <<schedVars, call, fs, sched, status>>

NextNext ==
    \/ CallNextRun
    \/ FeedBack

SpecNext == InitNext /\ [][NextNext]_vars

-----------------------------------------------------------------------------
(* The tools and the trigger evaluation called on their own *)

\* the fields of an RRULE line as written: FREQ "" and INTERVAL, COUNT, UNTIL
\* None when the key is absent, Bad when the value is not of its kind
RawRule(freq, interval, count, until) ==
    [FREQ |-> freq, INTERVAL |-> interval, COUNT |-> count, UNTIL |-> until]

\* _parse_rrule(rrule): INTERVAL is int(value), 1 when absent or not an integer;
\* COUNT is int(value), None when not an integer; the other values are kept
_parse_rrule(raw) ==
    [FREQ |-> raw.FREQ,
     INTERVAL |-> IF raw.INTERVAL = None \/ raw.INTERVAL = Bad THEN 1 ELSE raw.INTERVAL,
     COUNT |-> IF raw.COUNT = Bad THEN None ELSE raw.COUNT,
     UNTIL |-> raw.UNTIL]

\* the trigger texts tried: no DTSTART line; a DTSTART line whose value no
\* format parses; a well-formed one-shot; RRULE lines with a non-integer
\* INTERVAL and COUNT, with an unknown FREQ, with an UNTIL no format parses
Texts ==
    { [dtstart |-> None, rrule |-> NoRule],
      [dtstart |-> Bad, rrule |-> NoRule],
      [dtstart |-> T0, rrule |-> NoRule],
      [dtstart |-> T0, rrule |-> _parse_rrule(RawRule("DAILY", Bad, Bad, None))],
      [dtstart |-> T0, rrule |-> _parse_rrule(RawRule("BOGUS", None, None, None))],
      [dtstart |-> T0, rrule |-> _parse_rrule(RawRule("DAILY", 1, None, Bad))] }

\* the session_id arguments given to schedule_task
SessionArgs == {"", " "} \cup Sessions

\* the after of an evaluation, as a distance from the start: a task never run
\* (line 226), run at its start, run a day after its start
EvalOffsets == {-1, 0, DaySecs}

\* a faulty body that appends and saves before it looks for a session id;
\* C20_ErrorLeavesStore fails with it
ScheduleTaskResult_early(ts, prompt, vevent, session_id, effective, task_id, created) ==
    IF ~parse_vevent_minimal(vevent)
    THEN [status |-> "error", tasks |-> ts, writes |-> 0]
    ELSE IF (IF strip(session_id) # "" THEN strip(session_id) ELSE effective) = ""
    THEN [status |-> "error",
          tasks |-> save_tasks(Append(ts, NewTask(task_id, "", prompt, vevent, created))),
          writes |-> 1]
    ELSE [status |-> "success",
          tasks |-> save_tasks(Append(ts,
                       NewTask(task_id,
                               IF strip(session_id) # "" THEN strip(session_id) ELSE effective,
                               prompt, vevent, created))),
          writes |-> 1]

\* the body of schedule_task (lines 89-114) on the file content ts: the status
\* returned, the file content left, the number of save_tasks calls made
ScheduleTaskResult(ts, prompt, vevent, session_id, effective, task_id, created) ==
    IF ~parse_vevent_minimal(vevent)
    THEN [status |-> "error", tasks |-> ts, writes |-> 0]
    ELSE IF (IF strip(session_id) # "" THEN strip(session_id) ELSE effective) = ""
    THEN [status |-> "error", tasks |-> ts, writes |-> 0]
    ELSE [status |-> "success",
          tasks |-> save_tasks(Append(ts,
                       NewTask(task_id,
                               IF strip(session_id) # "" THEN strip(session_id) ELSE effective,
                               prompt, vevent, created))),
          writes |-> 1]

\* ids of the tasks a store holds before the tools are called
OldOneShot == 101
OldRecurring == 102
OldDeleted == 103

\* a store the scheduler has left: a one-shot task that was fired, a recurring
\* task fired at its start, and a record carrying the soft-delete flag
OldStore ==
    << Fired(NewTask(OldOneShot, "s1", "p1", [dtstart |-> T0, rrule |-> NoRule], T0 - 1)),
       Fired(NewTask(OldRecurring, "s1", "p1",
                     [dtstart |-> T0, rrule |-> Rule("hourly", 0, 2, T0 + 2 * HourSecs)],
                     T0 - 1)),
       [NewTask(OldDeleted, "s1", "p1", [dtstart |-> T0, rrule |-> NoRule], T0 - 1)
           EXCEPT !.deleted = TRUE] >>

\* the contents of scheduled_tasks.json the tools start from
ToolStores == {<<>>, OldStore}

\* the task_id arguments given to delete_task
DeleteArgs == TaskIds \cup {OldOneShot, OldRecurring, OldDeleted}

\* the last successful schedule_task before a call record c: its id and inputs
NoMade == [id |-> None, prompt |-> "", vevent |-> [dtstart |-> None, rrule |-> NoRule]]

LastMade(c) == IF c.op = "none" THEN NoMade ELSE c.made

\* check_tasks: the tasks not flagged deleted (line 131)
Visible(t) == ~t.deleted

\* a faulty status that reports every task that has run as completed;
\* C21_RoundTrip fails with it
TaskStatus_ran(t) == IF t.last_run_at # NoIso THEN "completed" ELSE "upcoming"

\* check_tasks: the coarse status (line 134)
TaskStatus(t) == IF t.completed THEN "completed" ELSE "upcoming"

\* check_tasks: the entry listed for a task (lines 135-143)
ListEntry(t) ==
    [id |-> t.id, session_id |-> t.session_id, prompt |-> t.prompt, vevent |-> t.vevent,
     created_at |-> t.created_at, last_run_at |-> t.last_run_at, status |-> TaskStatus(t)]

\* check_tasks(): the "tasks" list returned for the file content ts (lines 130-144)
check_tasks(ts) ==
    [k \in 1..Len(SelectSeq(ts, Visible)) |-> ListEntry(SelectSeq(ts, Visible)[k])]

InitTools ==
    /\ store \in ToolStores
    /\ now = T0 - 1
    /\ pc = "sleeping"
    /\ tasks = <<>>
    /\ idx = 0
    /\ changed = FALSE
    /\ tick_now = None
    /\ next_id = 0
    /\ fires = {}
    /\ refires = {}
    /\ hist = NoHist
    /\ high = [id \in TaskIds |-> None]
    /\ q = QIdle
    /\ call = NoCall
    /\ fs = NoFiles
    /\ sched = Started
    /\ status = NoStatus

\* one call schedule_task(prompt, vevent, session_id), whatever it returns
\* (taskTools.py 76-116)
CallScheduleTask ==
    /\ \E prompt \in Prompts, vevent \in Texts, session_id \in SessionArgs,
          effective \in EffectiveIds :
          \E r \in {ScheduleTaskResult(load_tasks, prompt, vevent, session_id, effective,
                                       next_id + 1, now)} :
             /\ r.status = "success" => next_id < MaxTasks
             /\ store' = r.tasks
             /\ next_id' = IF r.status = "success" THEN next_id + 1 ELSE next_id
             /\ call' = [op |-> "schedule_task", vevent |-> vevent, session_id |-> session_id,
                         effective |-> effective, status |-> r.status,
                         before |-> store, after |-> r.tasks, writes |-> r.writes,
                         made |-> IF r.status = "success"
                                  THEN [id |-> next_id + 1, prompt |-> prompt, vevent |-> vevent]
                                  ELSE LastMade(call)]
             /\ status' = ToolStatus(status, effective)
    /\ UNCHANGED <<now, pc, tasks, idx, changed, tick_now, fires, refires, hist, high, q, fs, sched>>

\* the scheduler's evaluation of one trigger text (lines 210-227): parse_vevent,
\* then _next_run_after on what it returned
EvaluateTrigger ==
    /\ \E vevent \in Texts, d \in EvalOffsets :
          \E parsed \in {parse_vevent(vevent)} :
             call' = [op |-> "evaluate", vevent |-> vevent, ok |-> parsed.ok,
                      start_utc |-> parsed.start_utc,
                      after |-> IF parsed.ok THEN parsed.start_utc + d ELSE None,
                      next |-> IF parsed.ok
                               THEN _next_run_after(parsed.start_utc, parsed.rrule,
                                                    parsed.start_utc + d)
                               ELSE None,
                      made |-> LastMade(call)]
    /\ UNCHANGED <<schedVars, q, fs, sched, status>>

\* the body of delete_task (lines 156-169) on the file content ts: the status
\* returned, the file content left, the number of save_tasks calls made
DeleteTaskResult(ts, task_id) ==
    IF ~found(ts, task_id)
    THEN [status |-> "error", tasks |-> ts, writes |-> 0]
    ELSE [status |-> "success", tasks |-> save_tasks(new_tasks(ts, task_id)), writes |-> 1]

\* one call delete_task(task_id), whatever it returns (taskTools.py 150-171)
CallDeleteTask ==
    /\ \E task_id \in DeleteArgs :
          \E r \in {DeleteTaskResult(load_tasks, task_id)} :
             /\ store' = r.tasks
             /\ call' = [op |-> "delete_task", task_id |-> task_id, status |-> r.status,
                         before |-> store, after |-> r.tasks, writes |-> r.writes,
                         made |-> LastMade(call)]
    /\ \E effective \in EffectiveIds : status' = ToolStatus(status, effective)
    /\ UNCHANGED <<now, pc, tasks, idx, changed, tick_now, next_id, fires, refires, hist, high, q, fs, sched>>

\* one call check_tasks() (taskTools.py 120-146)
CallCheckTasks ==
    /\ call' = [op |-> "check_tasks", before |-> store, after |-> store,
                out |-> check_tasks(load_tasks), made |-> LastMade(call)]
    /\ \E effective \in EffectiveIds : status' = ToolStatus(status, effective)
    /\ UNCHANGED <<schedVars, q, fs, sched>>

NextTools ==
    \/ CallScheduleTask
    \/ CallDeleteTask
    \/ EvaluateTrigger
    \/ CallCheckTasks

SpecTools == InitTools /\ [][NextTools]_vars

-----------------------------------------------------------------------------
(* save_tasks followed step by step (taskTools._atomic_write_json) *)

\* the variables of the loop and of the engine, which a save leaves alone
loopVars == <<now, pc, tasks, idx, changed, tick_now, next_id, fires, refires, hist, high, q, sched, status>>

\* json.dump writes the text of a list piece by piece: one piece per task and
\* the closing bracket
Pieces(ts) == Len(ts) + 1

\* the text of ts of which the first k pieces are on disk
Written(ts, k) == [text |-> ts, upto |-> k]

\* load_tasks (lines 39-54) on a file: [] when it is missing or its text does
\* not parse, the list when the text is whole
LoadFile(f) ==
    IF f.upto = None THEN <<>>
    ELSE IF f.upto = Pieces(f.text) THEN f.text
    ELSE <<>>

\* a faulty target: the text is written straight into scheduled_tasks.json;
\* C24_CrashKeepsPrior fails with it
WriteTarget_direct == "main"

\* the file _atomic_write_json writes the text into (line 33: tmp_path)
WriteTarget == "tmp"

\* os.replace(tmp_path, path) (line 36)
Replaced(f) == [[f EXCEPT ![WriteTarget] = Missing] EXCEPT !.main = f[WriteTarget]]

\* the lists given to save_tasks
SaveLists == UNION { Stores(n) : n \in 0..MaxTasks }

\* no save is under way
NoSaveRunning == IF call.op = "save" THEN call.pos = "done" ELSE TRUE

InitSave ==
    /\ store = <<>>
    /\ now = T0 - 1
    /\ pc = "sleeping"
    /\ tasks = <<>>
    /\ idx = 0
    /\ changed = FALSE
    /\ tick_now = None
    /\ next_id = 0
    /\ fires = {}
    /\ refires = {}
    /\ hist = NoHist
    /\ high = [id \in TaskIds |-> None]
    /\ q = QIdle
    /\ call = NoCall
    /\ fs = NoFiles
    /\ sched = Started
    /\ status = NoStatus

\* save_tasks(data) is called; prior is what load_tasks returns at that moment
SaveBegin ==
    /\ NoSaveRunning
    /\ \E data \in SaveLists :
          call' = [op |-> "save", data |-> data, pos |-> "begin", prior |-> LoadFile(fs.main)]
    /\ UNCHANGED <<store, fs, loopVars>>

\* open(tmp_path, "w") (line 34): the file exists and is empty
SaveOpen ==
    /\ call.op = "save"
    /\ call.pos = "begin"
    /\ fs' = [fs EXCEPT ![WriteTarget] = Written(call.data, 0)]
    /\ store' = LoadFile(fs'.main)
    /\ call' = [call EXCEPT !.pos = "writing"]
    /\ UNCHANGED loopVars

\* json.dump (line 35): one more piece reaches the file
SaveWrite ==
    /\ call.op = "save"
    /\ call.pos = "writing"
    /\ fs[WriteTarget].upto < Pieces(call.data)
    /\ fs' = [fs EXCEPT ![WriteTarget] = Written(call.data, @.upto + 1)]
    /\ store' = LoadFile(fs'.main)
    /\ UNCHANGED <<call, loopVars>>

\* the with-block ends: the file is closed with the whole text in it
SaveClose ==
    /\ call.op = "save"
    /\ call.pos = "writing"
    /\ fs[WriteTarget].upto = Pieces(call.data)
    /\ call' = [call EXCEPT !.pos = "closed"]
    /\ UNCHANGED <<store, fs, loopVars>>

\* os.replace(tmp_path, path) (line 36), and save_tasks returns
SaveReplace ==
    /\ call.op = "save"
    /\ call.pos = "closed"
    /\ fs' = Replaced(fs)
    /\ store' = LoadFile(fs'.main)
    /\ call' = [call EXCEPT !.pos = "done"]
    /\ UNCHANGED loopVars

\* the process is interrupted during a save, before the rename
SaveInterrupted ==
    /\ call.op = "save"
    /\ call.pos # "done"
    /\ call' = [op |-> "interrupted", at |-> call.pos, prior |-> call.prior]
    /\ UNCHANGED <<store, fs, loopVars>>

\* load_tasks() is called while no save is under way
LoadAfter ==
    /\ NoSaveRunning
    /\ call' = [op |-> "load", out |-> LoadFile(fs.main),
                at |-> IF call.op = "interrupted" THEN call.at ELSE "none",
                prior |-> IF call.op = "interrupted" THEN call.prior ELSE LoadFile(fs.main)]
    /\ UNCHANGED <<store, fs, loopVars>>

NextSave ==
    \/ SaveBegin
    \/ SaveOpen
    \/ SaveWrite
    \/ SaveClose
    \/ SaveReplace
    \/ SaveInterrupted
    \/ LoadAfter

SpecSave == InitSave /\ [][NextSave]_vars

-----------------------------------------------------------------------------
(* Two saves at once (taskTools._atomic_write_json called by the tick and by  *)
(* a tool running in a worker thread).  Here fs holds the directory (which    *)
(* file each of the two names refers to, 0 for none) and the files' contents  *)
(* as sequences of written pieces; call holds where each caller stands.       *)

\* the callers of save_tasks: _tick (taskScheduler.py line 265) and a tool
\* (taskTools.py lines 111, 168)
Savers == {"tick", "tool"}

\* a piece of the text json.dump writes: one task, or the closing bracket; a
\* hole is what a file holds where nothing was written below a later piece
TaskPiece(t) == [kind |-> "task", task |-> <<t>>]
EndPiece == [kind |-> "end", task |-> <<>>]
HolePiece == [kind |-> "hole", task |-> <<>>]

\* the text of the list ts, piece by piece
TextOf(ts) == [k \in 1..(Len(ts) + 1) |-> IF k <= Len(ts) THEN TaskPiece(ts[k]) ELSE EndPiece]

\* the content is the whole text of a list
IsWhole(content) ==
    /\ Len(content) >= 1
    /\ content[Len(content)] = EndPiece
    /\ \A k \in 1..(Len(content) - 1) : content[k].kind = "task"

\* json.load on a content (taskTools.py lines 42-54): the list, [] when the
\* text does not parse
ParseText(content) ==
    IF IsWhole(content) THEN [k \in 1..(Len(content) - 1) |-> content[k].task[1]] ELSE <<>>

\* load_tasks() on the directory f
LoadNamed(f) == IF f.names.main = 0 THEN <<>> ELSE ParseText(f.files[f.names.main])

\* open(tmp_path, "w") (line 34): the file named tmp_path is created, or
\* truncated when the name exists
OpenTmp(f) ==
    IF f.names.tmp = 0
    THEN [names |-> [f.names EXCEPT !.tmp = Len(f.files) + 1], files |-> Append(f.files, <<>>)]
    ELSE [f EXCEPT !.files[f.names.tmp] = <<>>]

\* a write of one piece through a descriptor that has written off pieces: the
\* piece lands at the descriptor's offset whatever the file holds by now
WriteAt(content, off, piece) ==
    IF off < Len(content) THEN [content EXCEPT ![off + 1] = piece]
    ELSE content \o [i \in 1..(off - Len(content)) |-> HolePiece] \o <<piece>>

\* os.replace(tmp_path, path) (line 36) when tmp_path exists
RenameTmp(f) == [f EXCEPT !.names = [main |-> f.names.tmp, tmp |-> 0]]

\* a caller that has not called save_tasks
Idle == [pos |-> "idle", data |-> <<>>, ino |-> 0, off |-> 0]

\* the directories the two saves start from: no file, or scheduled_tasks.json
\* holding the whole text of one stored task
RaceFiles ==
    { [names |-> [main |-> 0, tmp |-> 0], files |-> <<>>] } \cup
    { [names |-> [main |-> 1, tmp |-> 0], files |-> <<TextOf(ts)>>] : ts \in Stores(1) }

InitRace ==
    /\ fs \in RaceFiles
    /\ store = LoadNamed(fs)
    /\ now = T0 - 1
    /\ pc = "sleeping"
    /\ tasks = <<>>
    /\ idx = 0
    /\ changed = FALSE
    /\ tick_now = None
    /\ next_id = 0
    /\ fires = {}
    /\ refires = {}
    /\ hist = NoHist
    /\ high = [id \in TaskIds |-> None]
    /\ q = QIdle
    /\ call = [op |-> "saves", first |-> LoadNamed(fs), by |-> [w \in Savers |-> Idle]]
    /\ sched = Started
    /\ status = NoStatus

\* a caller calls save_tasks(data)
RaceBegin ==
    /\ \E w \in Savers, data \in SaveLists :
          /\ call.by[w].pos = "idle"
          /\ call' = [call EXCEPT !.by[w] = [pos |-> "begin", data |-> data, ino |-> 0, off |-> 0]]
    /\ UNCHANGED <<store, fs, loopVars>>

\* open(tmp_path, "w") (line 34)
RaceOpen ==
    /\ \E w \in Savers :
          /\ call.by[w].pos = "begin"
          /\ fs' = OpenTmp(fs)
          /\ call' = [call EXCEPT !.by[w].pos = "writing", !.by[w].ino = fs'.names.tmp]
    /\ store' = LoadNamed(fs')
    /\ UNCHANGED loopVars

\* json.dump (line 35): one more piece of the caller's text reaches its file
RaceWrite ==
    /\ \E w \in Savers :
          /\ call.by[w].pos = "writing"
          /\ call.by[w].off < Len(TextOf(call.by[w].data))
          /\ fs' = [fs EXCEPT !.files[call.by[w].ino] =
                       WriteAt(@, call.by[w].off, TextOf(call.by[w].data)[call.by[w].off + 1])]
          /\ call' = [call EXCEPT !.by[w].off = @ + 1]
    /\ store' = LoadNamed(fs')
    /\ UNCHANGED loopVars

\* the with-block ends: the caller's descriptor is closed
RaceClose ==
    /\ \E w \in Savers :
          /\ call.by[w].pos = "writing"
          /\ call.by[w].off = Len(TextOf(call.by[w].data))
          /\ call' = [call EXCEPT !.by[w].pos = "closed"]
    /\ UNCHANGED <<store, fs, loopVars>>

\* os.replace(tmp_path, path) (line 36): FileNotFoundError when the name
\* tmp_path is gone, and save_tasks raises
RaceReplace ==
    /\ \E w \in Savers :
          /\ call.by[w].pos = "closed"
          /\ IF fs.names.tmp = 0
             THEN /\ fs' = fs
                  /\ call' = [call EXCEPT !.by[w].pos = "failed"]
             ELSE /\ fs' = RenameTmp(fs)
                  /\ call' = [call EXCEPT !.by[w].pos = "done"]
    /\ store' = LoadNamed(fs')
    /\ UNCHANGED loopVars

NextRace ==
    \/ RaceBegin
    \/ RaceOpen
    \/ RaceWrite
    \/ RaceClose
    \/ RaceReplace

SpecRace == InitRace /\ [][NextRace]_vars

-----------------------------------------------------------------------------
(* The scheduler started and stopped (TaskScheduler.start, stop, _run_loop) *)

\* the scheduler as constructed (lines 173-177): no loop task yet
NotStarted == [task |-> "none", stopped |-> FALSE, orphaned |-> FALSE, restarted |-> FALSE,
               ignored |-> FALSE]

\* the loop task exists and is not done: running, or cancelled with the
\* CancelledError not yet thrown into it
NotDone(task) == task = "alive" \/ task = "cancelling"

\* a faulty guard that lets start() create a loop task whatever _task holds;
\* C28_OneLoopTask fails with it
StartAllowed_always(task) == TRUE

\* start(): `if self._task and not self._task.done(): return` (lines 180-181)
StartAllowed(task) == ~NotDone(task)

\* a faulty stop that sets the event and leaves the task uncancelled;
\* C26_NothingAfterStop fails with it
StopTask_flag(task) == task

\* stop(): self._task.cancel() (line 188)
StopTask(task) == "cancelling"

\* the tasks fired earlier in the tick whose in-memory record (ts) differs from
\* the stored one (st)
Unsaved(ts, st, ids) ==
    { id \in ids : \E i \in 1..Len(ts), j \in 1..Len(st) :
                      ts[i].id = id /\ st[j].id = id /\ st[j] # ts[i] }

\* the ids whose callback has returned in the tick suspended at position i of ts
ReturnedBefore(h, ts, i) == (h.invoked \ h.raised) \ {ts[i].id}

\* the stores the scheduler is started on: MaxTasks tasks created beforehand,
\* each with another trigger than the task created before it
LoopStores ==
    { ts \in Stores(MaxTasks) :
        \A i \in 1..(Len(ts) - 1) : ts[i].vevent # ts[i + 1].vevent }

InitLoop ==
    /\ store \in LoopStores
    /\ now = T0 - 1
    /\ pc = "sleeping"
    /\ tasks = <<>>
    /\ idx = 0
    /\ changed = FALSE
    /\ tick_now = None
    /\ next_id = MaxTasks
    /\ fires = {}
    /\ refires = {}
    /\ hist = NoHist
    /\ high = [id \in TaskIds |-> None]
    /\ q = QIdle
    /\ call = NoCall
    /\ fs = NoFiles
    /\ sched = NotStarted
    /\ status = NoStatus

\* start(inject_callback) (lines 179-183)
Start ==
    /\ IF StartAllowed(sched.task)
       THEN /\ sched' = [sched EXCEPT !.task = "alive", !.stopped = FALSE,
                                      !.orphaned = @ \/ NotDone(sched.task),
                                      !.restarted = @ \/ sched.stopped]
            /\ pc' = "sleeping"
            /\ tasks' = <<>>
            /\ idx' = 0
            /\ changed' = FALSE
            /\ tick_now' = None
       ELSE /\ sched' = [sched EXCEPT !.ignored = TRUE]
            /\ UNCHANGED <<pc, tasks, idx, changed, tick_now>>
    /\ UNCHANGED <<store, now, next_id, fires, refires, hist, high, q, call, fs, status>>

\* stop() up to its await (lines 185-190): the event is set, the task cancelled
Stop ==
    /\ NotDone(sched.task)
    /\ sched' = [sched EXCEPT !.stopped = TRUE, !.task = StopTask(@)]
    /\ UNCHANGED <<store, now, pc, tasks, idx, changed, tick_now, next_id, fires, refires,
                   hist, high, q, call, fs, status>>

\* the cancelled loop task is resumed: CancelledError is thrown into its await
\* (the callback at line 248 or the sleep at line 200); no `except Exception`
\* catches it (lines 261, 198), so _tick is left without its save and the task
\* is done
DeliverCancel ==
    /\ sched.task = "cancelling"
    /\ sched' = [sched EXCEPT !.task = "done"]
    /\ pc' = "sleeping"
    /\ tasks' = <<>>
    /\ idx' = 0
    /\ changed' = FALSE
    /\ tick_now' = None
    /\ hist' = IF pc = "awaiting"
               THEN [hist EXCEPT !.outcome = "cancelled",
                                 !.unsaved = Unsaved(tasks, store,
                                                     ReturnedBefore(hist, tasks, idx))]
               ELSE hist
    /\ UNCHANGED <<store, now, next_id, fires, refires, high, q, call, fs, status>>

\* one pass of `while not self._stopped.is_set()` (lines 195-197) after the
\* sleep: the loop ends, or _tick runs up to its first await
LoopWake ==
    /\ sched.task = "alive"
    /\ pc = "sleeping"
    /\ IF sched.stopped
       THEN /\ sched' = [sched EXCEPT !.task = "done"]
            /\ UNCHANGED <<store, now, pc, tasks, idx, changed, tick_now, next_id, fires,
                           refires, hist, high, q, call, fs, status>>
       ELSE TickStart

\* inject_callback returns to the running loop task
LoopCallbackReturn ==
    /\ sched.task = "alive"
    /\ CallbackReturn

\* inject_callback raises in the running loop task
LoopCallbackRaise ==
    /\ sched.task = "alive"
    /\ CallbackRaise

\* inject_callback returns, the tick runs to its end and save_tasks raises
\* (line 265): the exception reaches _run_loop, nothing is stored
LoopSaveFails ==
    /\ sched.task = "alive"
    /\ pc = "awaiting"
    /\ \E occ \in {<<tasks[idx].id, next_run_of(tasks[idx])>>} :
          /\ fires' = fires \cup {occ}
          /\ refires' = IF occ \in fires THEN refires \cup {occ} ELSE refires
          /\ \E ts \in {[tasks EXCEPT ![idx] = Fired(tasks[idx])]} :
             \E r \in {Sweep(ts, idx + 1, TRUE, tick_now)} :
                r.kind = "end"
    /\ pc' = "sleeping"
    /\ tasks' = <<>>
    /\ idx' = 0
    /\ changed' = FALSE
    /\ tick_now' = None
    /\ hist' = [hist EXCEPT !.outcome = "abort"]
    /\ sched' = [sched EXCEPT !.task = AfterTick("raise")]
    /\ status' = AfterInjection(status, tasks[idx])
    /\ UNCHANGED <<store, now, next_id, high, q, call, fs>>

NextLoop ==
    \/ AdvanceClock
    \/ Start
    \/ Stop
    \/ DeliverCancel
    \/ LoopWake
    \/ LoopCallbackReturn
    \/ LoopCallbackRaise
    \/ LoopSaveFails

SpecLoop == InitLoop /\ [][NextLoop]_vars

-----------------------------------------------------------------------------
(* A daily task polled every check interval *)

\* DEFAULT_CHECK_INTERVAL_SECONDS
CheckInterval == 5

\* 2025-01-01T09:00:00Z
Jan1Morning == FromCivil(2025, 1, 1, 9 * HourSecs)

\* DTSTART:20250101T090000Z with RRULE:FREQ=DAILY;INTERVAL=1
DailyVEvent == [dtstart |-> Jan1Morning, rrule |-> Rule("DAILY", 1, None, None)]

\* the instants of the first tick: a second before the start, at the start,
\* and two days and a second after it (2025-01-03T09:00:01Z)
FirstTicks == {Jan1Morning - 1, Jan1Morning, Jan1Morning + 2 * DaySecs + 1}

InitDaily ==
    /\ store = <<NewTask(1, "s1", "p1", DailyVEvent, Jan1Morning - DaySecs)>>
    /\ now \in FirstTicks
    /\ pc = "sleeping"
    /\ tasks = <<>>
    /\ idx = 0
    /\ changed = FALSE
    /\ tick_now = None
    /\ next_id = 1
    /\ fires = {}
    /\ refires = {}
    /\ hist = NoHist
    /\ high = [id \in TaskIds |-> None]
    /\ q = QIdle
    /\ call = NoCall
    /\ fs = NoFiles
    /\ sched = Started
    /\ status = NoStatus

\* asyncio.sleep(self.check_interval) (line 200) after a tick has passed
SleepInterval ==
    /\ pc = "sleeping"
    /\ hist.outcome # "none"
    /\ \E t \in FirstTicks : now >= t /\ now < t + MaxPolls * CheckInterval
    /\ now' = now + CheckInterval
    /\ hist' = NoHist
    /\ UNCHANGED <<store, pc, tasks, idx, changed, tick_now, next_id, fires, refires, high,
                   q, call, fs, sched, status>>

\* the loop starts with a tick and runs one tick after each sleep (lines 195-200)
TickAfterSleep ==
    /\ hist.outcome = "none"
    /\ TickStart

NextDaily ==
    \/ SleepInterval
    \/ TickAfterSleep
    \/ CallbackReturn
    \/ CallbackRaise

SpecDaily == InitDaily /\ [][NextDaily]_vars

-----------------------------------------------------------------------------
(* The scheduler on a store holding records of every kind the file can hold *)

\* the kinds of record: tasks as schedule_task stores them (a one-shot task, a
\* recurring task, a task whose UNTIL value no format parses, a task whose
\* DTSTART value no format parses), and records left by an earlier version: one
\* carrying the soft-delete flag, and a one-shot task that has run and whose
\* completed flag was not stored
Kinds == {"one_shot", "hourly", "bad_until", "bad_start", "deleted", "unclosed"}

OneShotAtT0 == [dtstart |-> T0, rrule |-> NoRule]

KindVEvent(kind) ==
    CASE kind = "hourly" -> [dtstart |-> T0, rrule |-> Rule("hourly", 0, 2, T0 + 2 * HourSecs)]
      [] kind = "bad_until" -> [dtstart |-> T0, rrule |-> Rule("", 1, None, Bad)]
      [] kind = "bad_start" -> [dtstart |-> Bad, rrule |-> NoRule]
      [] OTHER -> OneShotAtT0

\* the stored record of a kind
KindRecord(kind, id) ==
    [NewTask(id, "s1", "p1", KindVEvent(kind), T0 - 1)
        EXCEPT !.deleted = (kind = "deleted"),
               !.last_run_at = IF kind = "unclosed" THEN isoformat(T0) ELSE @]

\* the contents of scheduled_tasks.json with n records, each of another kind
RECURSIVE KindLists(_)
KindLists(n) ==
    IF n = 0 THEN {<<>>}
    ELSE { Append(ks, kind) : ks \in KindLists(n - 1), kind \in Kinds }

KindStores(n) ==
    { [i \in 1..n |-> KindRecord(ks[i], i)] :
         ks \in { l \in KindLists(n) : \A i, j \in 1..n : i # j => l[i] # l[j] } }

InitKinds ==
    /\ store \in KindStores(MaxStore)
    /\ now = T0 - 1
    /\ pc = "sleeping"
    /\ tasks = <<>>
    /\ idx = 0
    /\ changed = FALSE
    /\ tick_now = None
    /\ next_id = MaxStore
    /\ fires = {}
    /\ refires = {}
    /\ hist = NoHist
    /\ high = [id \in 1..MaxStore |-> None]
    /\ q = QIdle
    /\ call = NoCall
    /\ fs = NoFiles
    /\ sched = Started
    /\ status = NoStatus

NextKinds ==
    \/ AdvanceClock
    \/ TickStart
    \/ CallbackReturn
    \/ CallbackRaise
    \/ CallCheckTasks

SpecKinds == InitKinds /\ [][NextKinds]_vars

-----------------------------------------------------------------------------
(* Properties of the scheduler (Spec, FairSpec) *)

InStore(id) == \E i \in 1..Len(store) : store[i].id = id

\* the positions of the stored, non-deleted tasks whose trigger parses
Live == { i \in 1..Len(store) : ~store[i].deleted /\ parse_vevent(store[i].vevent).ok }

IsOneShot(t) == parse_vevent(t.vevent).ok /\ parse_vevent(t.vevent).rrule = NoRule

IsRecurring(t) == parse_vevent(t.vevent).ok /\ parse_vevent(t.vevent).rrule # NoRule

\* the scheduled instants of the model's triggers within the clock's horizon
OccValues == { T0 + h * HourSecs : h \in 0..MaxHours }

\* C1: the injection callback completes successfully at most once for each
\* (task, scheduled occurrence) pair, whatever other tasks are in the store.
C1_AtMostOnce == refires = {}

\* the task id has the occurrence occ due or overdue in the store
DueOcc(id, occ) ==
    \E i \in Live : /\ store[i].id = id
                    /\ next_run_of(store[i]) = occ
                    /\ occ <= now

\* the occurrence has been delivered and recorded, or the task has left the store
DoneOcc(id, occ) ==
    \/ /\ <<id, occ>> \in fires
       /\ \E i \in 1..Len(store) : /\ store[i].id = id
                                   /\ store[i].last_run_at # NoIso
                                   /\ last_run_of(store[i]) >= occ
    \/ ~InStore(id)

\* C2: at-least-once delivery: a stored task with an occurrence at or before
\* the current time eventually has the callback succeed for that occurrence and
\* a persisted last_run_at at or after it (while ticks keep running and the
\* task's callback eventually succeeds), unless the task leaves the store.
C2_AtLeastOnce ==
    \A id \in TaskIds : \A occ \in OccValues : DueOcc(id, occ) ~> DoneOcc(id, occ)

\* C3: when the callback raised for a due task, the remaining tasks of the same
\* tick are still evaluated and their changes persisted: once the tick is over,
\* every occurrence it fired after the raise is recorded in the store.
C3_RaiseIsolated ==
    pc = "sleeping" =>
        \A f \in hist.late :
            \E i \in 1..Len(store) : /\ store[i].id = f[1]
                                      /\ store[i].last_run_at # NoIso
                                      /\ last_run_of(store[i]) >= f[2]

\* C4: every persisted last_run_at is the scheduled instant of an occurrence
\* that was fired; and the callback is invoked for a task with a persisted
\* last_run_at only for an occurrence strictly after it that the tick's clock
\* has reached, never again for an occurrence already fired and persisted.
C4_Idempotent ==
    /\ \A i \in 1..Len(store) :
          store[i].last_run_at # NoIso =>
              /\ <<store[i].id, last_run_of(store[i])>> \in fires
              /\ last_run_of(store[i]) \in OccValues
    /\ pc = "awaiting" =>
          \A i \in 1..Len(store) :
              (store[i].id = tasks[idx].id /\ store[i].last_run_at # NoIso) =>
                  /\ next_run_of(tasks[idx]) > last_run_of(store[i])
                  /\ tick_now >= next_run_of(tasks[idx])
                  /\ now >= next_run_of(store[i])

\* C4 witness: a finished tick has passed over a recurring task whose
\* last_run_at is persisted and whose next occurrence the clock has not reached
C4_Witness ==
    /\ pc = "sleeping"
    /\ hist.outcome = "done"
    /\ \E i \in Live :
          /\ IsRecurring(store[i])
          /\ store[i].last_run_at # NoIso
          /\ last_run_of(store[i]) <= now
          /\ IsInstant(next_run_of(store[i]))
          /\ now < next_run_of(store[i])
          /\ store[i].id \notin hist.invoked

\* C5: a one-shot task fires exactly once: the callback is never invoked for a
\* one-shot task whose start occurrence has already been fired successfully.
C5_OneShotOnce ==
    pc = "awaiting" =>
        (IsOneShot(tasks[idx]) =>
            <<tasks[idx].id, parse_vevent(tasks[idx].vevent).start_utc>> \notin fires)

\* C6: a tick invokes the callback for a task only if the task is due or
\* overdue at the tick's clock, and every task that is due or overdue when the
\* tick loads the store is invoked in that tick.
C6_DueIffInvoked ==
    /\ hist.invoked \subseteq hist.due
    /\ (pc = "sleeping" /\ hist.outcome # "none") => hist.due \subseteq hist.invoked

\* the first half of C6 alone
C6_InvokedOnlyIfDue == hist.invoked \subseteq hist.due

\* C7: once the recurrence engine reports no further occurrence for a
\* recurring task, a tick sets completed=true: after a finished tick that did
\* not fire it, a stored recurring task with no further occurrence is completed.
C7_ExhaustedCompleted ==
    (pc = "sleeping" /\ hist.outcome = "done") =>
        \A i \in Live :
            ( /\ IsRecurring(store[i])
              /\ store[i].last_run_at # NoIso
              /\ next_run_of(store[i]) = None
              /\ store[i].id \notin hist.invoked ) => store[i].completed

CompletedInStore(id) == \E i \in 1..Len(store) : store[i].id = id /\ store[i].completed

C9_LastRunMonotone ==
    [][\A i \in 1..Len(store') :
          high[store'[i].id] # None =>
              /\ store'[i].last_run_at # NoIso
              /\ last_run_of(store'[i]) >= high[store'[i].id]]_vars

\* C9 witness: a stored last_run_at has moved forward from one fired
\* occurrence to the next
C9_Witness ==
    \E i \in 1..Len(store) :
        /\ store[i].last_run_at # NoIso
        /\ last_run_of(store[i]) = T0 + HourSecs
        /\ <<store[i].id, T0>> \in fires
        /\ high[store[i].id] = T0 + HourSecs

-----------------------------------------------------------------------------
(* Properties of the recurrence engine (SpecNext) *)

\* C10: with no recurrence rule, next_occurrence returns the start when the
\* start is strictly greater than after, and None otherwise.
C10_OneShot ==
    (q.phase = "ret" /\ q.rrule = NoRule) =>
        q.result = IF q.after < q.start_utc THEN q.start_utc ELSE None

\* C10 witness: the start was returned once, fed back as after, and the next
\* call returned None
C10_Witness ==
    /\ q.phase = "ret"
    /\ q.rrule = NoRule
    /\ q.n = 1
    /\ q.after = q.start_utc
    /\ q.result = None

\* the length in seconds of one unit of a fixed-length frequency
Unit(freq) ==
    CASE freq = "HOURLY" -> HourSecs
      [] freq = "DAILY" -> DaySecs
      [] freq = "WEEKLY" -> WeekSecs

\* the rule has a fixed-length frequency, an interval k >= 1, no COUNT, no UNTIL
IsPlainFixed(r) ==
    /\ r # NoRule
    /\ r.FREQ \in {"HOURLY", "DAILY", "WEEKLY"}
    /\ r.INTERVAL >= 1
    /\ r.COUNT = None
    /\ r.UNTIL = None

\* C11: for FREQ in {HOURLY, DAILY, WEEKLY}, interval k >= 1, no COUNT and no
\* UNTIL, next_occurrence returns the smallest instant start + n*k units
\* (n >= 0) strictly greater than after.
C11_SmallestLater ==
    (q.phase = "ret" /\ IsPlainFixed(q.rrule)) =>
        /\ IsInstant(q.result)
        /\ q.result > q.after
        /\ q.result >= q.start_utc
        /\ (q.result - q.start_utc) % (q.rrule.INTERVAL * Unit(q.rrule.FREQ)) = 0
        /\ (q.result = q.start_utc
              \/ q.result - q.rrule.INTERVAL * Unit(q.rrule.FREQ) <= q.after)

\* C11 witness: an interval of 2 hours, called with after on an occurrence
\* that is not the start: the next occurrence is two hours later
C11_Witness ==
    /\ q.phase = "ret"
    /\ q.rrule = Rule("HOURLY", 2, None, None)
    /\ q.after = q.start_utc + 2 * HourSecs
    /\ q.result = q.start_utc + 4 * HourSecs

\* the call belongs to an iteration begun at after = start - 1 second under a
\* rule with COUNT, and has returned an occurrence: occurrence number n + 1
CountedOccurrence ==
    /\ q.phase = "ret"
    /\ q.rrule # NoRule
    /\ q.rrule.COUNT # None
    /\ q.first = q.start_utc - 1
    /\ IsInstant(q.result)

\* C12: under COUNT=N, for every integer N the parser stores, iterating
\* next_occurrence from after = start - 1 second and feeding each result back
\* yields at most N occurrences in total, the start included.
C12_CountBound == CountedOccurrence => q.n + 1 <= q.rrule.COUNT

\* the same for the values N >= 1 alone
C12_PositiveCountBound ==
    (CountedOccurrence /\ q.rrule.COUNT >= 1) => q.n + 1 <= q.rrule.COUNT

\* C13: under UNTIL=T, next_occurrence never returns an instant at or after T.
C13_UntilExclusive ==
    ( /\ q.phase = "ret"
      /\ q.rrule # NoRule
      /\ IsInstant(q.rrule.UNTIL)
      /\ q.rrule.UNTIL # Bad
      /\ IsInstant(q.result) ) => q.result < q.rrule.UNTIL

\* the bound the code keeps: no occurrence after the start lies beyond T
C13_UntilInclusive ==
    ( /\ q.phase = "ret"
      /\ q.rrule # NoRule
      /\ IsInstant(q.rrule.UNTIL)
      /\ q.rrule.UNTIL # Bad
      /\ IsInstant(q.result) ) => (q.result <= q.rrule.UNTIL \/ q.result = q.start_utc)

\* the frequencies _next_run_after advances by
KnownFreqs == {"HOURLY", "DAILY", "WEEKLY", "MONTHLY", "YEARLY"}

\* the rule's FREQ value is present and is none of the known frequencies
HasUnknownFreq(r) == r # NoRule /\ r.FREQ # "" /\ upper(r.FREQ) \notin KnownFreqs

\* C14: for a rule whose FREQ is not one of HOURLY, DAILY, WEEKLY, MONTHLY,
\* YEARLY, next_occurrence returns None for every after, an after earlier than
\* the start included.
C14_UnknownFreqNone ==
    (q.phase = "ret" /\ HasUnknownFreq(q.rrule)) => q.result = None

\* what the code does for such a rule: None once after has reached the start
C14_UnknownFreqNoneLater ==
    (q.phase = "ret" /\ HasUnknownFreq(q.rrule) /\ q.after >= q.start_utc) => q.result = None

\* the rule is MONTHLY with an interval k >= 1, no COUNT, no UNTIL
IsPlainMonthly(r) ==
    /\ r # NoRule
    /\ r.FREQ = "MONTHLY"
    /\ r.INTERVAL >= 1
    /\ r.COUNT = None
    /\ r.UNTIL = None

\* the fields b are those of the fields a moved k calendar months on: the month
\* k later with the year carried, the day clamped to that month's length, the
\* time of day kept
MovedMonths(a, b, k) ==
    /\ b.year * 12 + b.month - 1 = a.year * 12 + a.month - 1 + k
    /\ b.day = Min(a.day, DaysInMonth(b.year, b.month))
    /\ b.sod = a.sod

\* C15: monthly advancement by k months yields the date in the calendar month
\* k months later, with day = min(current day, days in the target month) and
\* the time of day unchanged; start 2024-01-31 with FREQ=MONTHLY;INTERVAL=1
\* yields 2024-02-29 and then 2024-03-29.
C15_MonthlyClamp ==
    /\ ( /\ q.phase = "ret"
         /\ IsPlainMonthly(q.rrule)
         /\ (q.n >= 1 \/ q.after = q.start_utc) ) =>
            /\ IsInstant(q.result)
            /\ MovedMonths(Civil(q.after), Civil(q.result), q.rrule.INTERVAL)
    /\ ( /\ q.phase = "ret"
         /\ q.start_utc = Jan31
         /\ q.rrule = Rule("MONTHLY", 1, None, None)
         /\ q.first = Jan31 - 1 ) =>
            /\ q.n = 0 => q.result = Jan31
            /\ q.n = 1 => q.result = FromCivil(2024, 2, 29, 0)
            /\ q.n = 2 => q.result = FromCivil(2024, 3, 29, 0)

\* C15 witness: the iteration from 2024-01-31 has returned 2024-02-29 and then
\* 2024-03-29
C15_Witness ==
    /\ q.phase = "ret"
    /\ q.start_utc = Jan31
    /\ q.rrule = Rule("MONTHLY", 1, None, None)
    /\ q.first = Jan31 - 1
    /\ q.n = 2
    /\ q.after = FromCivil(2024, 2, 29, 0)
    /\ q.result = FromCivil(2024, 3, 29, 0)

\* the day of the fields b is the day of the fields a clamped to b's month
DayClampedFrom(a, b) == b.day = Min(a.day, DaysInMonth(b.year, b.month))

\* C16: for a MONTHLY rule the day-of-month of every occurrence is the original
\* start's day-of-month clamped to the length of the occurrence's month.
C16_DayFromStart ==
    ( /\ q.phase = "ret"
      /\ q.rrule # NoRule
      /\ q.rrule.FREQ = "MONTHLY"
      /\ IsInstant(q.result) ) => DayClampedFrom(Civil(q.start_utc), Civil(q.result))

\* the rule is YEARLY with an interval k >= 1, no COUNT, no UNTIL
IsPlainYearly(r) ==
    /\ r # NoRule
    /\ r.FREQ = "YEARLY"
    /\ r.INTERVAL >= 1
    /\ r.COUNT = None
    /\ r.UNTIL = None

\* C17: yearly advancement succeeds for every start, a start on 29 February
\* included: no error is raised, and the occurrence after an occurrence is the
\* same month and time k years later, the day clamped to the month's length
\* (28 February in a non-leap year).
C17_YearlySucceeds ==
    ( /\ q.phase = "ret"
      /\ IsPlainYearly(q.rrule)
      /\ (q.n >= 1 \/ q.after = q.start_utc) ) =>
        /\ q.result # Raise
        /\ IsInstant(q.result)
        /\ MovedMonths(Civil(q.after), Civil(q.result), 12 * q.rrule.INTERVAL)

\* what the code does: the advancement succeeds from every start whose day
\* exists in the target year
C17_YearlySucceedsOffLeapDay ==
    ( /\ q.phase = "ret"
      /\ IsPlainYearly(q.rrule)
      /\ (q.n >= 1 \/ q.after = q.start_utc)
      /\ ~(Civil(q.start_utc).month = 2 /\ Civil(q.start_utc).day = 29) ) =>
        /\ IsInstant(q.result)
        /\ MovedMonths(Civil(q.after), Civil(q.result), 12 * q.rrule.INTERVAL)

-----------------------------------------------------------------------------
(* Properties of the tools and of the trigger evaluation (SpecTools) *)

\* C18: parsing a trigger text fails exactly when no start line is found; every
\* other malformed field (start value, FREQ, INTERVAL, COUNT, UNTIL) degrades to
\* a default, and neither the parse nor the next_occurrence call that follows
\* raises.
C18_OnlyMissingStartFails ==
    call.op = "evaluate" =>
        /\ call.ok <=> call.vevent.dtstart # None
        /\ call.ok => call.next # Raise

\* what the code does: the same for the texts whose date/time values parse
C18_WellFormedValuesPass ==
    ( /\ call.op = "evaluate"
      /\ call.vevent.dtstart # Bad
      /\ call.vevent.rrule.UNTIL # Bad ) =>
        /\ call.ok <=> call.vevent.dtstart # None
        /\ call.ok => call.next # Raise

\* C19: every trigger stored by create contains a start instant: the
\* scheduler's parser yields a start instant for every stored text.
C19_StoredHaveStart ==
    \A i \in 1..Len(store) :
        /\ parse_vevent(store[i].vevent).ok
        /\ IsInstant(parse_vevent(store[i].vevent).start_utc)

\* what the code keeps: every stored text has a start line
C19_StoredHaveStartLine ==
    \A i \in 1..Len(store) : store[i].vevent.dtstart # None

\* C20: when create returns a validation error (no start line, or no session id
\* supplied or resolvable) the persisted store is unchanged: no task is added
\* and nothing is written.
C20_ErrorLeavesStore ==
    (call.op = "schedule_task" /\ call.status = "error") =>
        /\ call.after = call.before
        /\ call.writes = 0

\* C20 witness: a create with a start line and no session id, supplied or
\* bound, returned an error on a store that holds a task
C20_Witness ==
    /\ call.op = "schedule_task"
    /\ call.status = "error"
    /\ call.vevent.dtstart # None
    /\ strip(call.session_id) = ""
    /\ call.effective = ""
    /\ Len(call.before) >= 1
    /\ store = call.before

\* the file content ts holds a task with this id
HoldsId(ts, id) == \E i \in 1..Len(ts) : ts[i].id = id

\* C21: after a successful create that no delete has undone, list returns an
\* entry with the created id whose prompt and trigger text equal the inputs and
\* whose status is "upcoming" with no last_run_at; and the status list reports
\* is "completed" exactly when the stored completed flag is true.
C21_RoundTrip ==
    call.op = "check_tasks" =>
        /\ (call.made # NoMade /\ HoldsId(call.before, call.made.id)) =>
              \E k \in 1..Len(call.out) :
                 /\ call.out[k].id = call.made.id
                 /\ call.out[k].prompt = call.made.prompt
                 /\ call.out[k].vevent = call.made.vevent
                 /\ call.out[k].status = "upcoming"
                 /\ call.out[k].last_run_at = NoIso
        /\ \A k \in 1..Len(call.out) :
              \E i \in 1..Len(call.before) :
                 /\ call.before[i].id = call.out[k].id
                 /\ ~call.before[i].deleted
                 /\ call.out[k].status = "completed" <=> call.before[i].completed

\* C21 witness: list is called on a store that holds the task last created, a
\* fired recurring task (run, not completed) and a completed one-shot task
C21_Witness ==
    /\ call.op = "check_tasks"
    /\ call.made # NoMade
    /\ HoldsId(call.before, call.made.id)
    /\ \E k \in 1..Len(call.out) :
          call.out[k].id = OldRecurring /\ call.out[k].last_run_at # NoIso
    /\ \E k \in 1..Len(call.out) : call.out[k].status = "completed"

\* the positions of the tasks of ts that delete_task(task_id) matches
Matches(ts, task_id) == { i \in 1..Len(ts) : ts[i].id = task_id /\ ~ts[i].deleted }

\* ts without its element at position i
RemoveAt(ts, i) == SubSeq(ts, 1, i - 1) \o SubSeq(ts, i + 1, Len(ts))

\* C22: delete(id) for an id that matches no non-deleted task returns a
\* not-found error and leaves the store unchanged: nothing is written.
C22_NotFoundLeavesStore ==
    (call.op = "delete_task" /\ Matches(call.before, call.task_id) = {}) =>
        /\ call.status = "error"
        /\ call.after = call.before
        /\ call.writes = 0

\* C22 witness: delete was called with the id of a record flagged deleted, on
\* the store holding that record, and returned the error
C22_Witness ==
    /\ call.op = "delete_task"
    /\ call.task_id = OldDeleted
    /\ HoldsId(call.before, OldDeleted)
    /\ call.status = "error"
    /\ store = call.before

\* C23: delete(id) for the id of a present, non-deleted task removes that task
\* and leaves every other record, soft-deleted ones included, unchanged and in
\* the same order; afterwards list does not return the id.
C23_DeleteRemovesOne ==
    (call.op = "delete_task" /\ Matches(call.before, call.task_id) # {}) =>
        /\ call.status = "success"
        /\ \E i \in Matches(call.before, call.task_id) : call.after = RemoveAt(call.before, i)
        /\ \A k \in 1..Len(check_tasks(call.after)) :
              check_tasks(call.after)[k].id # call.task_id

\* C23 witness: a task in the middle of a store that also holds a soft-deleted
\* record and a created task was deleted
C23_Witness ==
    /\ call.op = "delete_task"
    /\ call.task_id = OldRecurring
    /\ call.status = "success"
    /\ Len(call.before) >= 4
    /\ HoldsId(call.after, OldDeleted)
    /\ HoldsId(call.after, OldOneShot)
    /\ store = call.after

-----------------------------------------------------------------------------
(* Properties of save_tasks and load_tasks (SpecSave) *)

\* C24: if a save is interrupted before the rename, whether before, during or
\* after the writing of the temporary file, the next load returns exactly the
\* collection stored before that save began: never a partly written one, and
\* never an empty list when the prior collection was not empty.
C24_CrashKeepsPrior ==
    (call.op = "load" /\ call.at # "none") =>
        /\ call.out = call.prior
        /\ call.prior # <<>> => call.out # <<>>
        /\ store = call.prior

\* C24 witness: a save of another list over a non-empty collection was
\* interrupted with the temporary file half written, and load was called
C24_Witness ==
    /\ call.op = "load"
    /\ call.at = "writing"
    /\ call.prior # <<>>
    /\ fs.tmp.upto # None
    /\ fs.tmp.upto >= 1
    /\ fs.tmp.upto < Pieces(fs.tmp.text)
    /\ fs.tmp.text # call.prior

-----------------------------------------------------------------------------
(* Properties of start, stop and the loop (SpecLoop) *)

\* C25: the loop never terminates except through stop(): an error raised in a
\* tick (parse, evaluation, callback or save failure) is caught at the latest
\* at the loop boundary, and the loop task sleeps and goes on.
C25_LoopSurvivesErrors ==
    /\ sched.task = "done" => sched.stopped
    /\ (hist.outcome = "abort" /\ ~sched.stopped) => (sched.task = "alive" /\ pc = "sleeping")

\* C25 witness: a tick was abandoned on an error after an earlier tick of the
\* same loop task had been abandoned too (its firing was not stored and the
\* occurrence was fired again), and the loop task runs
C25_Witness ==
    /\ hist.outcome = "abort"
    /\ refires # {}
    /\ hist.raised # {}
    /\ sched.task = "alive"
    /\ ~sched.restarted
    /\ ~sched.stopped

\* C26: after stop() has been called on a running scheduler, no tick is
\* started and the injection callback is not invoked again, until a start()
\* creates a new loop task.
C26_NothingAfterStop ==
    [][ (sched.stopped /\ sched'.stopped) =>
           /\ hist'.outcome = "running" => hist.outcome = "running"
           /\ hist'.invoked \subseteq hist.invoked
           /\ pc' = "awaiting" => (pc = "awaiting" /\ idx' = idx) ]_vars

\* C26 witness: stop() was called while a tick was suspended in the callback
\* with another due task still to come, and the loop task has ended
C26_Witness ==
    /\ sched.stopped
    /\ sched.task = "done"
    /\ hist.outcome = "cancelled"
    /\ hist.due \ hist.invoked # {}

\* C27: when stop() is called while a tick is suspended in the callback, the
\* tick is allowed to finish: the last_run_at / completed changes it has
\* already made in memory are persisted before the loop exits.
C27_StopPersists ==
    hist.outcome = "cancelled" => hist.unsaved = {}

\* C28: whatever start() and stop() calls are made, at most one loop task is
\* not done, so at most one tick is in progress and at most one callback
\* invocation is in flight.
C28_OneLoopTask ==
    /\ ~sched.orphaned
    /\ pc = "awaiting" => NotDone(sched.task)
    /\ ~NotDone(sched.task) => (pc = "sleeping" /\ tasks = <<>>)

\* C28 witness: a start() was ignored while the loop ran, the scheduler was
\* stopped and started again, and the new loop task has a callback in flight
C28_Witness ==
    /\ sched.ignored
    /\ sched.restarted
    /\ sched.task = "alive"
    /\ pc = "awaiting"

-----------------------------------------------------------------------------
(* Properties of the store shared by the tools and the tick (Spec) *)

\* C29: when a create or a delete runs while a tick is suspended in the
\* callback, the tick's final save replaces the store with the list the tick
\* loaded earlier: a task created in that window disappears from the store and
\* a task deleted in that window reappears.
C29_LastWriterWins ==
    [][ (pc = "awaiting" /\ hist'.saved) =>
           /\ [i \in 1..Len(store') |-> store'[i].id] = [i \in 1..Len(tasks) |-> tasks[i].id]
           /\ \A id \in IdsOf(store) \ IdsOf(tasks) : id \notin IdsOf(store')
           /\ \A id \in IdsOf(tasks) \ IdsOf(store) : id \in IdsOf(store') ]_vars

\* C29 witness: a tick has saved its list after a task was created and another
\* deleted while it was suspended: the created one is gone, the deleted one back
C29_Witness ==
    /\ pc = "sleeping"
    /\ hist.saved
    /\ hist.lost # {}
    /\ hist.revived # {}
    /\ hist.revived \subseteq IdsOf(store)
    /\ hist.lost \cap IdsOf(store) = {}

-----------------------------------------------------------------------------
(* Properties of the daily scenario (SpecDaily) *)

\* the ticks of 2025-01-03 from 09:00:01Z on
OnThirdDay == now >= Jan1Morning + 2 * DaySecs + 1

\* C30: for a task with start 2025-01-01T09:00:00Z, FREQ=DAILY;INTERVAL=1 and
\* no last_run_at, a tick at 2025-01-03T09:00:01Z fires the 2025-01-01T09:00:00Z
\* occurrence and records it as last_run_at; the next tick, a few seconds later
\* on the same day, does not fire the task again.
C30_DailyScenario ==
    OnThirdDay =>
        /\ (pc = "awaiting" /\ store[1].last_run_at = NoIso) =>
              next_run_of(tasks[idx]) = Jan1Morning
        /\ store[1].last_run_at # NoIso =>
              /\ last_run_of(store[1]) = Jan1Morning
              /\ pc # "awaiting"

\* what the code does in the first tick of that day: it fires the occurrence of
\* the start, and the first last_run_at stored is that occurrence
C30_FirstFiresStart ==
    OnThirdDay =>
        /\ (pc = "awaiting" /\ store[1].last_run_at = NoIso) =>
              next_run_of(tasks[idx]) = Jan1Morning
        /\ (store[1].last_run_at # NoIso /\ Cardinality(fires) = 1) =>
              last_run_of(store[1]) = Jan1Morning

-----------------------------------------------------------------------------
(* Properties of the tick on records of every kind (SpecKinds) *)

\* the ids of the records of ts flagged deleted
DeletedIds(ts) == { ts[i].id : i \in { j \in 1..Len(ts) : ts[j].deleted } }

\* C31: a record carrying deleted=true is skipped by every tick: it is never
\* passed to the callback, none of its fields is modified in the tick's list or
\* in a collection the tick saves, where it stays at its place with the flag
\* set, and list never returns it.
C31_DeletedSkipped ==
    /\ [](pc = "awaiting" =>
             /\ ~tasks[idx].deleted
             /\ \A i \in 1..Len(store) : store[i].deleted => tasks[i] = store[i])
    /\ [](hist.invoked \cap DeletedIds(store) = {})
    /\ [](call.op = "check_tasks" =>
             \A k \in 1..Len(call.out) : call.out[k].id \notin DeletedIds(call.before))
    /\ [][\A i \in 1..Len(store) :
             store[i].deleted => (i <= Len(store') /\ store'[i] = store[i])]_vars

\* C31 witness: a tick has fired a task and saved its list, in which a record
\* flagged deleted whose start the clock has reached precedes the fired task;
\* list was called on that store
C31_Witness ==
    /\ pc = "sleeping"
    /\ hist.outcome = "done"
    /\ hist.saved
    /\ call.op = "check_tasks"
    /\ call.before = store
    /\ \E i, j \in 1..Len(store) :
          /\ i < j
          /\ store[i].deleted
          /\ parse_vevent(store[i].vevent).start_utc <= now
          /\ store[j].id \in hist.invoked
          /\ store[j].last_run_at # NoIso

-----------------------------------------------------------------------------
(* Properties of the tick on a store of created tasks (SpecStore) *)

\* evaluating the task raises outside the injection call: its trigger parses and
\* _next_run_after raises on it
Faulty(t) == ~t.deleted /\ parse_vevent(t.vevent).ok /\ next_run_of(t) = Raise

\* C32: an error raised while evaluating one task outside the injection call
\* does not stop the tick: once a tick over a store holding such a task has
\* ended, every task that was due when it began has had the callback invoked,
\* and every task it fired has its run recorded in the store (the store does
\* not schedule an occurrence that was fired).
C32_ErrorIsolated ==
    ( /\ pc = "sleeping"
      /\ hist.outcome \in {"done", "abort"}
      /\ \E i \in 1..Len(store) : Faulty(store[i]) ) =>
        /\ hist.due \subseteq hist.invoked
        /\ \A i \in Live :
              store[i].id \in hist.invoked \ hist.raised =>
                  <<store[i].id, next_run_of(store[i])>> \notin fires

-----------------------------------------------------------------------------
(* Properties of the tick on records of every kind, continued (SpecKinds) *)

\* the trigger text has no DTSTART line with a value, or a value no format parses
Unparsable(t) == t.vevent.dtstart = None \/ t.vevent.dtstart = Bad

UnparsableIds(ts) == { ts[i].id : i \in { j \in 1..Len(ts) : Unparsable(ts[j]) } }

\* C33: a task whose trigger text fails to parse during a tick is skipped: the
\* callback is not invoked for it, none of its fields changes in the tick's
\* list or in the store, the failure does not end the tick (only an error of
\* another task's evaluation does), and every due task is invoked in a tick
\* that runs to its end; the text is parsed again by every later tick.
C33_ParseFailureSkipped ==
    /\ [](pc = "awaiting" =>
             /\ ~Unparsable(tasks[idx])
             /\ \A i \in 1..Len(store) : Unparsable(store[i]) => tasks[i] = store[i])
    /\ [](hist.invoked \cap UnparsableIds(store) = {})
    /\ [](hist.outcome = "abort" => \E i \in 1..Len(store) : Faulty(store[i]))
    /\ []((pc = "sleeping" /\ hist.outcome = "done") => hist.due \subseteq hist.invoked)
    /\ [][\A i \in 1..Len(store) :
             Unparsable(store[i]) => (i <= Len(store') /\ store'[i] = store[i])]_vars

\* C33 witness: two ticks have run to their end over a store in which a task
\* whose DTSTART value does not parse precedes a recurring task, and each of
\* them fired the recurring task
C33_Witness ==
    /\ pc = "sleeping"
    /\ hist.outcome = "done"
    /\ \E i, j \in 1..Len(store) :
          /\ i < j
          /\ ~store[i].deleted
          /\ store[i].vevent.dtstart = Bad
          /\ store[i].last_run_at = NoIso
          /\ <<store[j].id, T0>> \in fires
          /\ store[j].id \in hist.invoked
          /\ store[j].last_run_at # NoIso
          /\ last_run_of(store[j]) = T0 + HourSecs

\* C34: a tick saves the collection at most once, after the sweep over all
\* tasks, and not at all when it changed no task: the store is written only by
\* the step that ends a tick, no step that leaves the tick in the callback
\* writes it, and the tick's save leaves a store that differs from the one
\* before in some task's last_run_at or completed.
C34_OneSaveIfChanged ==
    /\ [][store' # store =>
             (pc' = "sleeping" /\ hist'.outcome = "done" /\ hist'.saved)]_vars
    /\ [][pc' = "awaiting" => (store' = store /\ ~hist'.saved)]_vars
    /\ [][((hist' # hist \/ store' # store) /\ hist'.outcome = "done" /\ hist'.saved) =>
             /\ Len(store') = Len(store)
             /\ \E i \in 1..Len(store) :
                   \/ store'[i].last_run_at # store[i].last_run_at
                   \/ store'[i].completed # store[i].completed]_vars

\* C34 witness: one tick has fired two tasks, the callback of another raised
\* in between or the task was skipped, and the list was saved at the end
C34_Witness ==
    /\ pc = "sleeping"
    /\ hist.outcome = "done"
    /\ hist.saved
    /\ Cardinality(hist.invoked \ hist.raised) >= 2
    /\ \A i \in 1..Len(store) :
          store[i].id \in hist.invoked \ hist.raised => store[i].last_run_at # NoIso

\* a tick has run to its end without changing a task and has not saved
C34_WitnessNoSave ==
    /\ pc = "sleeping"
    /\ hist.outcome = "done"
    /\ ~hist.saved
    /\ hist.raised # {}

-----------------------------------------------------------------------------
(* Properties of the status sink (SpecStore) *)

\* C35: the status is marked active for the task's session when a tick begins
\* injecting a due task, and is cleared when the injection ends, whether the
\* callback returned or raised (unless the tick goes straight on to inject the
\* next task of that session); once a tick has finished, no session's status
\* is left active.
C35_StatusCleared ==
    /\ [](pc = "awaiting" => strip(tasks[idx].session_id) \in status.active)
    /\ [][(pc = "awaiting" /\ (pc' # "awaiting" \/ idx' # idx)) =>
             \/ strip(tasks[idx].session_id) \notin status'.active
             \/ (pc' = "awaiting" /\ tasks'[idx'].session_id = tasks[idx].session_id)]_vars
    /\ []((pc = "sleeping" /\ hist.outcome \in {"done", "abort"}) => status.active = {})

\* what the code does: the status is marked when the injection begins, and is
\* clear after a tick in which the last injection returned
C35_ClearedOnReturn ==
    /\ [](pc = "awaiting" => strip(tasks[idx].session_id) \in status.active)
    /\ [][(pc = "awaiting" /\ pc' = "sleeping" /\ hist'.raised = hist.raised) =>
             status'.active = {}]_vars

-----------------------------------------------------------------------------
(* Properties of the tick beside the tools, continued (Spec) *)

\* C36: once delete(id) has returned success for a task, the callback is never
\* invoked for it again, also when the delete happens while a tick that loaded
\* the task is suspended in another task's callback.  Ids are never handed out
\* twice, so a task of the tick's list that the store no longer holds is one
\* that delete has removed: the callback is invoked only for a task that the
\* store holds at that moment.
C36_NoFireAfterDelete ==
    [][(pc' = "awaiting" /\ (pc # "awaiting" \/ idx' # idx)) =>
          tasks'[idx'].id \in IdsOf(store')]_vars

-----------------------------------------------------------------------------
(* Properties of the daily scenario, continued (SpecDaily) *)

\* the occurrences of the daily rule from the start to the n-th one after it
DailyRuns(n) == { <<1, Jan1Morning + k * DaySecs>> : k \in 0..n }

\* C37: catch-up without skipping: when the daily task is several occurrences
\* overdue, a tick fires at most one occurrence of it, the stored last_run_at
\* is always the latest of the occurrences fired so far, these are the
\* consecutive occurrences of the rule from the start on with none skipped and
\* none fired twice, and a tick fires nothing only when the next occurrence
\* lies in the future.
C37_CatchUpInOrder ==
    /\ [](store[1].last_run_at = NoIso => fires = {})
    /\ [](store[1].last_run_at # NoIso =>
             /\ last_run_of(store[1]) >= Jan1Morning
             /\ (last_run_of(store[1]) - Jan1Morning) % DaySecs = 0
             /\ fires = DailyRuns((last_run_of(store[1]) - Jan1Morning) \div DaySecs))
    /\ [](refires = {})
    /\ []((pc = "sleeping" /\ hist.outcome = "done" /\ hist.invoked = {}) =>
             next_run_of(store[1]) > now)
    /\ [][fires' # fires =>
             /\ Cardinality(fires') = Cardinality(fires) + 1
             /\ pc' = "sleeping"
             /\ hist'.outcome = "done"
             /\ hist'.saved]_vars

\* C37 witness: the task was three occurrences overdue, three ticks have fired
\* the occurrences of 1, 2 and 3 January in turn, and a fourth tick has fired
\* nothing
C37_Witness ==
    /\ pc = "sleeping"
    /\ hist.outcome = "done"
    /\ hist.invoked = {}
    /\ OnThirdDay
    /\ fires = DailyRuns(2)
    /\ last_run_of(store[1]) = Jan1Morning + 2 * DaySecs

-----------------------------------------------------------------------------
(* Properties of the recurrence engine, continued (SpecNext) *)

FixedFreqs == {"HOURLY", "DAILY", "WEEKLY"}

\* C38: next_occurrence terminates for every parsed trigger and every after:
\* the interval used is an integer >= 1 (1 when INTERVAL is absent, unparsable,
\* zero or negative), so an advancement moves the candidate forward, and (for
\* the frequencies of fixed length, where no calendar date can fail to exist)
\* the loop ends with an instant or None.
C38_Terminates ==
    (q.phase = "ret" /\ q.rrule # NoRule) =>
        /\ interval_of(q.rrule) >= 1
        /\ freq_of(q.rrule) \in FixedFreqs =>
              /\ Advance(q.start_utc, freq_of(q.rrule), interval_of(q.rrule)) > q.start_utc
              /\ q.result # Raise

\* what the code keeps: the same for the INTERVAL values that are not negative
C38_TerminatesNonNegative ==
    (q.phase = "ret" /\ q.rrule # NoRule /\ q.rrule.INTERVAL >= 0) =>
        /\ interval_of(q.rrule) >= 1
        /\ freq_of(q.rrule) \in FixedFreqs =>
              /\ Advance(q.start_utc, freq_of(q.rrule), interval_of(q.rrule)) > q.start_utc
              /\ q.result # Raise

-----------------------------------------------------------------------------
(* Properties of the tick on records of every kind, continued (SpecKinds) *)

\* the record b is the record a with at most last_run_at and completed changed
SameButRunState(a, b) ==
    /\ b.id = a.id
    /\ b.session_id = a.session_id
    /\ b.prompt = a.prompt
    /\ b.vevent = a.vevent
    /\ b.created_at = a.created_at
    /\ b.deleted = a.deleted

\* a one-shot task that has run and is not marked completed: the tick closes it
Closable(t) ==
    /\ ~t.deleted
    /\ parse_vevent(t.vevent).ok
    /\ parse_vevent(t.vevent).rrule = NoRule
    /\ ~t.completed
    /\ t.last_run_at # NoIso

\* the list new holds the records of the list old, in order, with only
\* last_run_at and completed changed, and only of the tasks of old with an id
\* in ids or closable
FrameKept(old, new, ids) ==
    /\ Len(new) = Len(old)
    /\ \A i \in 1..Len(old) :
          /\ SameButRunState(old[i], new[i])
          /\ new[i] # old[i] => (old[i].id \in ids \/ Closable(old[i]))

\* C39: a tick changes only the last_run_at and completed fields of tasks it
\* has fired or closed: the list it holds and the list it saves have the
\* records of the loaded collection, as many and in the same order, with every
\* other field as loaded, and with no field changed of a task whose callback
\* has not returned in this tick (so none of a task that was not due) unless
\* the tick closed it.
C39_TickFrame ==
    /\ [][FrameKept(store, store', (hist'.invoked \ hist'.raised) \cap hist'.due)]_vars
    /\ [](pc = "awaiting" =>
             FrameKept(store, tasks, ((hist.invoked \ hist.raised) \ {tasks[idx].id}) \cap hist.due))

\* C39 witness: a tick has saved a list in which it has fired one task and
\* closed another, beside a record flagged deleted that it left alone
C39_Witness ==
    /\ pc = "sleeping"
    /\ hist.outcome = "done"
    /\ hist.saved
    /\ \E i, j, k \in 1..Len(store) :
          /\ store[i].id \in hist.invoked \ hist.raised
          /\ store[i].last_run_at # NoIso
          /\ store[j].id \notin hist.invoked
          /\ ~store[j].deleted
          /\ store[j].completed
          /\ store[k].deleted
          /\ store[k].last_run_at = NoIso

-----------------------------------------------------------------------------
(* Properties of two saves at once (SpecRace) *)

\* the lists passed to save_tasks so far
Passed == { call.by[w].data : w \in { v \in Savers : call.by[v].pos # "idle" } }

\* C40: when two saves run at once, scheduled_tasks.json always holds one of
\* the complete collections passed to save (or the one it held before), never
\* a torn or mixed one, and no save fails.
C40_ConcurrentSaves ==
    /\ fs.names.main # 0 =>
          /\ IsWhole(fs.files[fs.names.main])
          /\ LoadNamed(fs) \in Passed \cup {call.first}
    /\ \A w \in Savers : call.by[w].pos # "failed"

\* what the code keeps: a save that runs alone, from open to rename, leaves
\* the file whole
C40_AloneKeepsWhole ==
    (\E w \in Savers : call.by[w].pos \in {"idle", "begin"}) =>
        /\ fs.names.main # 0 =>
              /\ IsWhole(fs.files[fs.names.main])
              /\ LoadNamed(fs) \in Passed \cup {call.first}
        /\ \A w \in Savers : call.by[w].pos # "failed"

=============================================================================
